---- MODULE Spec2Model ----
(***************************************************************************)
(* A model of the static-analysis engine of redis_test_mcp_tools: the      *)
(* parser adapter (get_ast_from_file), the symbol extractor                *)
(* (extract_function_info, extract_class_info, parse_module_ast and the    *)
(* single-file queries), the test-semantics classifier                     *)
(* (_detect_framework_context, analyze_test_files), the untested-code      *)
(* differ (find_untested_code) and the suggestion generator                *)
(* (suggest_test_cases).                                                   *)
(*                                                                         *)
(* Python values are modelled as follows.  A str is a sequence of          *)
(* one-character strings, so that `in`, startswith, lower, replace and     *)
(* the regular-expression searches are computed character by character.    *)
(* A dict is a record; a dict that may lack a key is a record that may     *)
(* lack the field.  A list is a sequence.  Enumerated tags that the code   *)
(* only ever compares for equality (parameter kinds, framework labels,     *)
(* node types) are plain TLA+ strings.  An exception that leaves a         *)
(* function is the record [raised |-> <exception type>].                   *)
(***************************************************************************)
EXTENDS Integers, Sequences, FiniteSets, TLC

VARIABLES
    fs,      \* the files under config.project_root: relative path -> file
    call,    \* the engine operation invoked last, with its arguments
    result   \* the value that operation returned (or the exception it raised)

vars == <<fs, call, result>>

(***************************************************************************)
(* Python str                                                              *)
(***************************************************************************)

\* Python's None, where the code holds Optional[str]
None == <<"None">>

\* sub in s
IsSubstr(sub, s) ==
    \E i \in 1..(Len(s) - Len(sub) + 1) : SubSeq(s, i, i + Len(sub) - 1) = sub

\* s.startswith(p)
StartsWith(s, p) == Len(p) <= Len(s) /\ SubSeq(s, 1, Len(p)) = p

\* s.endswith(p)
EndsWith(s, p) == Len(p) <= Len(s) /\ SubSeq(s, Len(s) - Len(p) + 1, Len(s)) = p

UpperLetters ==
    <<"A", "B", "C", "D", "E", "F", "G", "H", "I", "J", "K", "L", "M",
      "N", "O", "P", "Q", "R", "S", "T", "U", "V", "W", "X", "Y", "Z">>

LowerLetters ==
    <<"a", "b", "c", "d", "e", "f", "g", "h", "i", "j", "k", "l", "m",
      "n", "o", "p", "q", "r", "s", "t", "u", "v", "w", "x", "y", "z">>

LowerChar(c) ==
    IF \E i \in DOMAIN UpperLetters : UpperLetters[i] = c
    THEN LowerLetters[CHOOSE i \in DOMAIN UpperLetters : UpperLetters[i] = c]
    ELSE c

\* s.lower()
Lower(s) == [i \in DOMAIN s |-> LowerChar(s[i])]

Digits == <<"0", "1", "2", "3", "4", "5", "6", "7", "8", "9">>

\* str(n) for an int n >= 0
RECURSIVE IntStr(_)
IntStr(n) ==
    IF n < 10 THEN <<Digits[n + 1]>>
    ELSE IntStr(n \div 10) \o <<Digits[(n % 10) + 1]>>

\* repr(s) for a str s without backslashes: Python quotes with ' unless the
\* text holds a ' and no "
Repr(s) ==
    IF IsSubstr(<<"'">>, s) /\ ~IsSubstr(<<"\"">>, s)
    THEN <<"\"">> \o s \o <<"\"">>
    ELSE <<"'">> \o s \o <<"'">>

(***************************************************************************)
(* Expressions of the syntax tree (decorators, base classes, annotations,  *)
(* default values) and ast.unparse                                         *)
(***************************************************************************)

NoExpr == [node |-> "None"]
Name(id) == [node |-> "Name", id |-> id]
Attribute(value, attr) == [node |-> "Attribute", value |-> value, attr |-> attr]
Keyword(arg, value) == [arg |-> arg, value |-> value]
Call(func, args, keywords) ==
    [node |-> "Call", func |-> func, args |-> args, keywords |-> keywords]
StrConstant(s) == [node |-> "Constant", kind |-> "str", value |-> s]
IntConstant(n) == [node |-> "Constant", kind |-> "int", value |-> n]
BoolConstant(b) == [node |-> "Constant", kind |-> "bool", value |-> b]
Subscript(value, slice) == [node |-> "Subscript", value |-> value, slice |-> slice]
Tuple(elts) == [node |-> "Tuple", elts |-> elts]

RECURSIVE JoinComma(_)
JoinComma(texts) ==
    IF Len(texts) = 0 THEN <<>>
    ELSE IF Len(texts) = 1 THEN texts[1]
    ELSE texts[1] \o <<",", " ">> \o JoinComma(Tail(texts))

\* ast.unparse(e)
RECURSIVE unparse(_)
unparse(e) ==
    CASE e.node = "Name" -> e.id
      [] e.node = "Attribute" -> unparse(e.value) \o <<".">> \o e.attr
      [] e.node = "Constant" ->
            (CASE e.kind = "str" -> Repr(e.value)
               [] e.kind = "int" -> IntStr(e.value)
               [] e.kind = "bool" -> IF e.value THEN <<"T", "r", "u", "e">> ELSE <<"F", "a", "l", "s", "e">>)
      [] e.node = "Call" ->
            unparse(e.func) \o <<"(">>
            \o JoinComma([i \in 1..Len(e.args) |-> unparse(e.args[i])]
                         \o [i \in 1..Len(e.keywords) |->
                                e.keywords[i].arg \o <<"=">> \o unparse(e.keywords[i].value)])
            \o <<")">>
      [] e.node = "Subscript" ->
            unparse(e.value) \o <<"[">>
            \o (IF e.slice.node = "Tuple" /\ Len(e.slice.elts) > 0
                THEN JoinComma([i \in 1..Len(e.slice.elts) |-> unparse(e.slice.elts[i])])
                ELSE unparse(e.slice))
            \o <<"]">>
      [] e.node = "Tuple" ->
            <<"(">>
            \o JoinComma([i \in 1..Len(e.elts) |-> unparse(e.elts[i])])
            \o (IF Len(e.elts) = 1 THEN <<",", ")">> ELSE <<")">>)

\* get_type_annotation(annotation)
get_type_annotation(annotation) ==
    IF annotation = NoExpr THEN None ELSE unparse(annotation)

(***************************************************************************)
(* Statements of the syntax tree.  A parsed module is an arena: a sequence *)
(* of the nodes that the analysis looks at (function definitions, class    *)
(* definitions, imports), each naming its parent (0 is the ast.Module) and *)
(* the list field of the parent that holds it.  The line number of node i  *)
(* is i: a line holds at most one def or class statement.                  *)
(***************************************************************************)

\* ast.arg
Arg(name, annotation) == [arg |-> name, annotation |-> annotation]
NoArg == [arg |-> None, annotation |-> NoExpr]

\* ast.arguments
Arguments(posonlyargs, args, vararg, kwonlyargs, kwarg, defaults) ==
    [posonlyargs |-> posonlyargs, args |-> args, vararg |-> vararg,
     kwonlyargs |-> kwonlyargs, kwarg |-> kwarg, defaults |-> defaults]

\* the first statement of a body: an expression statement or anything else
ExprStmt(value) == [stmt |-> "Expr", value |-> value]
PassStmt == [stmt |-> "Pass", value |-> NoExpr]

\* ast.FunctionDef / ast.AsyncFunctionDef
FunctionDef(type, parent, name, args, decorator_list, returns, first_stmt, lineno) ==
    [type |-> type, parent |-> parent, field |-> "body", name |-> name, args |-> args,
     decorator_list |-> decorator_list, returns |-> returns,
     first_stmt |-> first_stmt, lineno |-> lineno]

\* ast.ClassDef
ClassDef(parent, name, bases, decorator_list, first_stmt, lineno) ==
    [type |-> "ClassDef", parent |-> parent, field |-> "body", name |-> name,
     bases |-> bases, decorator_list |-> decorator_list,
     first_stmt |-> first_stmt, lineno |-> lineno]

IsFunctionNode(node) == node.type \in {"FunctionDef", "AsyncFunctionDef"}
IsClassNode(node) == node.type = "ClassDef"

\* extract_docstring(node): only a leading string-literal expression statement
extract_docstring(first_stmt) ==
    IF /\ first_stmt.stmt = "Expr"
       /\ first_stmt.value.node = "Constant"
       /\ first_stmt.value.kind = "str"
    THEN first_stmt.value.value
    ELSE None

(***************************************************************************)
(* extract_function_info                                                   *)
(***************************************************************************)

Raised(exc) == [raised |-> exc]
IsRaised(v) == "raised" \in DOMAIN v

\* d[key] = value on a dict d
SetKey(d, key, value) ==
    [k \in DOMAIN d \cup {key} |-> IF k = key THEN value ELSE d[k]]

ParamInfo(a, kind) ==
    [name |-> a.arg, type |-> get_type_annotation(a.annotation), kind |-> kind]

\* a variant in the order of the declaration: keyword-only before **kwargs
params_as_declared(args) ==
    [i \in 1..Len(args.args) |-> ParamInfo(args.args[i], "positional")]
    \o (IF args.vararg # NoArg THEN <<ParamInfo(args.vararg, "vararg")>> ELSE <<>>)
    \o [i \in 1..Len(args.kwonlyargs) |-> ParamInfo(args.kwonlyargs[i], "keyword_only")]
    \o (IF args.kwarg # NoArg THEN <<ParamInfo(args.kwarg, "kwarg")>> ELSE <<>>)

\* the params list before the defaults are attached: positional, *args,
\* **kwargs, keyword-only, in the order the code appends them
params_of(args) ==
    [i \in 1..Len(args.args) |-> ParamInfo(args.args[i], "positional")]
    \o (IF args.vararg # NoArg THEN <<ParamInfo(args.vararg, "vararg")>> ELSE <<>>)
    \o (IF args.kwarg # NoArg THEN <<ParamInfo(args.kwarg, "kwarg")>> ELSE <<>>)
    \o [i \in 1..Len(args.kwonlyargs) |-> ParamInfo(args.kwonlyargs[i], "keyword_only")]

\* a left-aligning variant: the first default on the first parameter
default_offset_left(args) == 0

\* default_offset = len(node.args.args) - len(defaults)
default_offset(args) == Len(args.args) - Len(args.defaults)

\* the loop over enumerate(defaults), from its i-th round (i counts from 0).
\* params[param_index] is Python list indexing: a negative index counts from
\* the end and an index before the first element raises IndexError.
RECURSIVE attach_defaults(_, _, _, _)
attach_defaults(params, defaults, offset, i) ==
    IF i >= Len(defaults) THEN [params |-> params]
    ELSE LET param_index == offset + i
         IN  IF param_index < Len(params)
             THEN LET at == IF param_index >= 0 THEN param_index + 1
                            ELSE Len(params) + param_index + 1
                  IN  IF at < 1 THEN Raised("IndexError")
                      ELSE attach_defaults(
                               [params EXCEPT ![at] =
                                   SetKey(@, "default", unparse(defaults[i + 1]))],
                               defaults, offset, i + 1)
             ELSE attach_defaults(params, defaults, offset, i + 1)

extract_function_info(node) ==
    LET attached == attach_defaults(params_of(node.args), node.args.defaults,
                                    default_offset(node.args), 0)
    IN  IF IsRaised(attached) THEN attached
        ELSE [name |-> node.name,
              type |-> IF node.type = "AsyncFunctionDef"
                       THEN "async_function" ELSE "function",
              docstring |-> extract_docstring(node.first_stmt),
              parameters |-> attached.params,
              return_type |-> get_type_annotation(node.returns),
              decorators |-> [i \in 1..Len(node.decorator_list) |->
                                 unparse(node.decorator_list[i])],
              line_number |-> node.lineno]

(***************************************************************************)
(* The engine's state and its first operation                              *)
(***************************************************************************)

\* a project root that holds no file
NoFiles == [p \in {} |-> [kind |-> "file"]]

NoCall == [op |-> "none"]
NoResult == [none |-> TRUE]

Init ==
    /\ fs = NoFiles
    /\ call = NoCall
    /\ result = NoResult

(***************************************************************************)
(* Signatures: every signature Python's grammar admits with at most        *)
(* MaxPosOnly positional-only parameters, MaxArgs ordinary positional      *)
(* parameters, MaxKwOnly keyword-only parameters, an optional *args and    *)
(* **kwargs, and any number of defaults (they bind to the last             *)
(* positional-only and positional parameters, so there are at most as      *)
(* many as those).                                                         *)
(***************************************************************************)

MaxPosOnly == 1
MaxArgs == 2
MaxKwOnly == 1

Signature(np, na, hasVararg, nk, hasKwarg, nd) ==
    Arguments([i \in 1..np |-> Arg(<<"p", Digits[i + 1]>>, NoExpr)],
              [i \in 1..na |-> Arg(<<LowerLetters[i]>>, NoExpr)],
              IF hasVararg THEN Arg(<<"a", "r", "g", "s">>, NoExpr) ELSE NoArg,
              [i \in 1..nk |-> Arg(<<"k", Digits[i + 1]>>, NoExpr)],
              IF hasKwarg THEN Arg(<<"k", "w", "a", "r", "g", "s">>, NoExpr) ELSE NoArg,
              [i \in 1..nd |-> IntConstant(i)])

Signatures ==
    {Signature(np, na, v, nk, kw, nd) :
        np \in 0..MaxPosOnly, na \in 0..MaxArgs, v \in BOOLEAN,
        nk \in 0..MaxKwOnly, kw \in BOOLEAN, nd \in 0..(MaxPosOnly + MaxArgs)}

ValidSignatures ==
    {sig \in Signatures : Len(sig.defaults) <= Len(sig.posonlyargs) + Len(sig.args)}

\* def f(<sig>): pass
SignatureNode(sig) ==
    FunctionDef("FunctionDef", 0, <<"f">>, sig, <<>>, NoExpr, PassStmt, 1)

\* extract_function_info(node) on a parsed def statement
ExtractFunctionInfo ==
    \E sig \in ValidSignatures :
        /\ call' = [op |-> "extract_function_info", node |-> SignatureNode(sig)]
        /\ result' = extract_function_info(SignatureNode(sig))
        /\ UNCHANGED fs

SpecSignature == Init /\ [][ExtractFunctionInfo]_vars

(***************************************************************************)
(* Claims about extract_function_info                                      *)
(***************************************************************************)

\* def f(a, b=1, *args, **kwargs)
ExampleSignature == Signature(0, 2, TRUE, 0, TRUE, 1)

HasDefault(param) == "default" \in DOMAIN param

\* C3: with p positional parameters and d <= p defaults, the i-th default is
\* recorded on positional parameter number p-d+i and on no other entry; and
\* (a, b=1, *args, **kwargs) yields the four entries positional, positional,
\* vararg, kwarg in that order, of which only b carries a default, "1".
C3_DefaultsRightAligned ==
    (call.op = "extract_function_info"
     /\ Len(call.node.args.defaults) <= Len(call.node.args.args)) =>
        LET args == call.node.args
            p == Len(args.args)
            d == Len(args.defaults)
        IN  /\ ~IsRaised(result)
            /\ \A i \in 1..d :
                  /\ HasDefault(result.parameters[p - d + i])
                  /\ result.parameters[p - d + i].default = unparse(args.defaults[i])
                  /\ result.parameters[p - d + i].name = args.args[p - d + i].arg
                  /\ result.parameters[p - d + i].kind = "positional"
            /\ \A j \in 1..Len(result.parameters) :
                  HasDefault(result.parameters[j]) => j \in (p - d + 1)..p
            /\ args = ExampleSignature =>
                  /\ [j \in 1..Len(result.parameters) |-> result.parameters[j].kind]
                        = <<"positional", "positional", "vararg", "kwarg">>
                  /\ [j \in 1..Len(result.parameters) |-> result.parameters[j].name]
                        = <<<<"a">>, <<"b">>, <<"a", "r", "g", "s">>, <<"k", "w", "a", "r", "g", "s">>>>
                  /\ result.parameters[2].default = <<"1">>
                  /\ {j \in 1..4 : HasDefault(result.parameters[j])} = {2}

\* extract_function_info has run on (a, b=1, *args, **kwargs) and on a
\* signature with a required parameter before two defaulted ones
C3_Witness ==
    /\ call.op = "extract_function_info"
    /\ call.node.args = ExampleSignature
    /\ ~IsRaised(result)
    /\ HasDefault(result.parameters[2])
    /\ ~HasDefault(result.parameters[1])

(***************************************************************************)
(* Files and the parser adapter                                            *)
(***************************************************************************)

\* ast.Module: its leading statement and the arena of its nodes
Module(first_stmt, nodes) == [first_stmt |-> first_stmt, nodes |-> nodes]
EmptyModule == Module(PassStmt, <<>>)

\* A file of the project.  readable: open() succeeds; decodable: its bytes
\* are UTF-8; parse: what ast.parse does with its text ("ok", or the
\* exception it raises); module: the tree ast.parse returns.
SourceFile(module) ==
    [kind |-> "file", readable |-> TRUE, decodable |-> TRUE,
     parse |-> "ok", module |-> module]
BrokenFile(exc) ==
    [kind |-> "file", readable |-> TRUE, decodable |-> TRUE,
     parse |-> exc, module |-> EmptyModule]
UnreadableFile ==
    [kind |-> "file", readable |-> FALSE, decodable |-> TRUE,
     parse |-> "ok", module |-> EmptyModule]
UndecodableFile ==
    [kind |-> "file", readable |-> TRUE, decodable |-> FALSE,
     parse |-> "ok", module |-> EmptyModule]
Directory ==
    [kind |-> "dir", readable |-> TRUE, decodable |-> TRUE,
     parse |-> "ok", module |-> EmptyModule]

\* s.rfind(c) + 1: the last position of character c in s, 0 when absent
LastIndexOf(s, c) ==
    IF \E i \in DOMAIN s : s[i] = c
    THEN CHOOSE i \in DOMAIN s : s[i] = c /\ \A j \in DOMAIN s : s[j] = c => j <= i
    ELSE 0

\* Path.name
PathName(path) == SubSeq(path, LastIndexOf(path, "/") + 1, Len(path))

\* Path.suffix
PathSuffix(path) ==
    LET name == PathName(path)
        i == LastIndexOf(name, ".")
    IN  IF i > 1 /\ i < Len(name) THEN SubSeq(name, i, Len(name)) ELSE <<>>

\* config.python_extensions
python_extensions == {<<".", "p", "y">>, <<".", "p", "y", "i">>}

\* config.is_python_file(path)
is_python_file(path) == PathSuffix(path) \in python_extensions

\* (config.project_root / path).is_dir(): the root, a directory entry, or a
\* directory above some file
IsDirectory(files, path) ==
    \/ path \in {<<>>, <<".">>}
    \/ (path \in DOMAIN files /\ files[path].kind = "dir")
    \/ \E q \in DOMAIN files : StartsWith(q, path \o <<"/">>)

\* (config.project_root / path).exists()
PathExists(files, path) == path \in DOMAIN files \/ IsDirectory(files, path)

Error(message) == [error |-> message]
IsError(v) == "error" \in DOMAIN v

\* str(e) of the exception the read or the parse raised
ExcText(exc) == <<"<", exc, ">">>

\* the exception open()/read() raises on the path, "ok" when the text is read
ReadOutcome(files, path) ==
    IF path \notin DOMAIN files \/ files[path].kind = "dir" THEN "IsADirectoryError"
    ELSE IF ~files[path].readable THEN "PermissionError"
    ELSE IF ~files[path].decodable THEN "UnicodeDecodeError"
    ELSE "ok"

\* a variant that looks at the extension before it looks for the file
get_ast_from_file_extension_first(files, file_path) ==
    IF ~is_python_file(file_path)
    THEN Error(<<"N", "o", "t", " ", "a", " ", "P", "y", "t", "h", "o", "n", " ", "f", "i", "l", "e", ":", " ">> \o file_path)
    ELSE IF ~PathExists(files, file_path)
    THEN Error(<<"F", "i", "l", "e", " ", "n", "o", "t", " ", "f", "o", "u", "n", "d", ":", " ">> \o file_path)
    ELSE IF ReadOutcome(files, file_path) # "ok"
    THEN Error(<<"E", "r", "r", "o", "r", " ", "p", "a", "r", "s", "i", "n", "g", " ">> \o file_path \o <<":", " ">>
               \o ExcText(ReadOutcome(files, file_path)))
    ELSE IF files[file_path].parse # "ok"
    THEN Error(<<"S", "y", "n", "t", "a", "x", " ", "e", "r", "r", "o", "r", " ", "i", "n", " ">> \o file_path \o <<":", " ">> \o ExcText("SyntaxError"))
    ELSE [tree |-> files[file_path].module]

\* get_ast_from_file(file_path): [tree |-> the ast.Module] or {'error': ...}
get_ast_from_file(files, file_path) ==
    IF ~PathExists(files, file_path)
    THEN Error(<<"F", "i", "l", "e", " ", "n", "o", "t", " ", "f", "o", "u", "n", "d", ":", " ">> \o file_path)
    ELSE IF ~is_python_file(file_path)
    THEN Error(<<"N", "o", "t", " ", "a", " ", "P", "y", "t", "h", "o", "n", " ", "f", "i", "l", "e", ":", " ">> \o file_path)
    ELSE IF ReadOutcome(files, file_path) # "ok"
    THEN Error(<<"E", "r", "r", "o", "r", " ", "p", "a", "r", "s", "i", "n", "g", " ">> \o file_path \o <<":", " ">>
               \o ExcText(ReadOutcome(files, file_path)))
    ELSE IF files[file_path].parse = "SyntaxError"
    THEN Error(<<"S", "y", "n", "t", "a", "x", " ", "e", "r", "r", "o", "r", " ", "i", "n", " ">> \o file_path \o <<":", " ">> \o ExcText("SyntaxError"))
    ELSE IF files[file_path].parse # "ok"
    THEN Error(<<"E", "r", "r", "o", "r", " ", "p", "a", "r", "s", "i", "n", "g", " ">> \o file_path \o <<":", " ">>
               \o ExcText(files[file_path].parse))
    ELSE [tree |-> files[file_path].module]

(***************************************************************************)
(* ast.walk and the symbol extractor                                       *)
(***************************************************************************)

\* the nodes held directly by node number n (0: the module), in source order
ChildrenOf(nodes, n) ==
    SelectSeq([i \in 1..Len(nodes) |-> i], LAMBDA i : nodes[i].parent = n)

\* ast.walk: breadth first, from a queue of nodes still to visit
RECURSIVE WalkFrom(_, _)
WalkFrom(nodes, queue) ==
    IF queue = <<>> THEN <<>>
    ELSE <<Head(queue)>> \o WalkFrom(nodes, Tail(queue) \o ChildrenOf(nodes, Head(queue)))

\* the numbers of the nodes below the module, in ast.walk order
walk(tree) == WalkFrom(tree.nodes, ChildrenOf(tree.nodes, 0))

\* the first exception among the values of a list of results, if any
FirstRaised(values) ==
    values[CHOOSE i \in DOMAIN values :
              IsRaised(values[i]) /\ \A j \in DOMAIN values : IsRaised(values[j]) => i <= j]
AnyRaised(values) == \E i \in DOMAIN values : IsRaised(values[i])

\* the decorator is `property` or `<something>.property`
IsPropertyDecorator(dec) ==
    \/ (dec.node = "Name" /\ dec.id = <<"p", "r", "o", "p", "e", "r", "t", "y">>)
    \/ (dec.node = "Attribute" /\ dec.attr = <<"p", "r", "o", "p", "e", "r", "t", "y">>)

is_property(item) ==
    \E i \in DOMAIN item.decorator_list : IsPropertyDecorator(item.decorator_list[i])

\* method_info of one item of a class body
method_info(item) ==
    LET info == extract_function_info(item)
    IN  IF IsRaised(info) THEN info
        ELSE SetKey(info, "visibility",
                    IF StartsWith(item.name, <<"_">>) THEN "private" ELSE "public")

\* base_classes: ast.unparse of each base
base_classes_of(node) == [i \in 1..Len(node.bases) |-> unparse(node.bases[i])]

\* extract_class_info(node) for the class that is node number c of the tree.
\* Assignment statements are not among the modelled nodes, so
\* class_variables is the empty list.
extract_class_info(tree, c) ==
    LET node == tree.nodes[c]
        items == SelectSeq(ChildrenOf(tree.nodes, c),
                           LAMBDA i : IsFunctionNode(tree.nodes[i]) /\ tree.nodes[i].field = "body")
        infos == [k \in 1..Len(items) |-> method_info(tree.nodes[items[k]])]
        methods == SelectSeq([k \in 1..Len(items) |-> k],
                             LAMBDA k : ~is_property(tree.nodes[items[k]]))
        properties == SelectSeq([k \in 1..Len(items) |-> k],
                                LAMBDA k : is_property(tree.nodes[items[k]]))
    IN  IF AnyRaised(infos) THEN FirstRaised(infos)
        ELSE [name |-> node.name,
              type |-> "class",
              docstring |-> extract_docstring(node.first_stmt),
              base_classes |-> base_classes_of(node),
              methods |-> [k \in 1..Len(methods) |-> infos[methods[k]]],
              properties |-> [k \in 1..Len(properties) |-> infos[properties[k]]],
              class_variables |-> <<>>,
              decorators |-> [i \in 1..Len(node.decorator_list) |->
                                 unparse(node.decorator_list[i])],
              line_number |-> node.lineno]

\* ast.alias
Alias(name, asname) == [name |-> name, asname |-> asname]

\* ast.Import: import <names>
Import(parent, names, lineno) ==
    [type |-> "Import", parent |-> parent, field |-> "body",
     names |-> names, lineno |-> lineno]

\* ast.ImportFrom: from <level dots><module> import <names>
ImportFrom(parent, module, names, level, lineno) ==
    [type |-> "ImportFrom", parent |-> parent, field |-> "body",
     module |-> module, names |-> names, level |-> level, lineno |-> lineno]

\* the entries one import statement adds to an imports list
imports_of(node) ==
    IF node.type = "Import"
    THEN [k \in 1..Len(node.names) |->
             [type |-> "import", module |-> node.names[k].name,
              alias |-> node.names[k].asname, line_number |-> node.lineno]]
    ELSE IF node.type = "ImportFrom"
    THEN [k \in 1..Len(node.names) |->
             [type |-> "from_import",
              module |-> IF node.module = None THEN <<>> ELSE node.module,
              name |-> node.names[k].name, alias |-> node.names[k].asname,
              level |-> node.level, line_number |-> node.lineno]]
    ELSE <<>>

RECURSIVE Flatten(_)
Flatten(lists) ==
    IF lists = <<>> THEN <<>> ELSE Head(lists) \o Flatten(Tail(lists))

\* the imports list built over ast.walk(tree)
imports_in(tree) ==
    LET order == walk(tree)
    IN  Flatten([k \in 1..Len(order) |-> imports_of(tree.nodes[order[k]])])

\* a variant that takes every def for a top-level function
is_method_never(tree, i) == FALSE

\* is_method: some ClassDef of the tree holds the node in its body
is_method(tree, i) ==
    /\ tree.nodes[i].parent # 0
    /\ IsClassNode(tree.nodes[tree.nodes[i].parent])
    /\ tree.nodes[i].field = "body"

\* parse_module_ast(file_path)
parse_module_ast(files, file_path) ==
    LET ast_result == get_ast_from_file(files, file_path)
    IN  IF IsError(ast_result) THEN ast_result
        ELSE
        LET tree == ast_result.tree
            order == walk(tree)
            funcs == SelectSeq(order, LAMBDA i : IsFunctionNode(tree.nodes[i])
                                                   /\ ~is_method(tree, i))
            classes == SelectSeq(order, LAMBDA i : IsClassNode(tree.nodes[i]))
            function_infos == [k \in 1..Len(funcs) |->
                                  extract_function_info(tree.nodes[funcs[k]])]
            class_infos == [k \in 1..Len(classes) |-> extract_class_info(tree, classes[k])]
        IN  IF AnyRaised(function_infos \o class_infos)
            THEN FirstRaised(function_infos \o class_infos)
            ELSE [file_path |-> file_path,
                  functions |-> function_infos,
                  classes |-> class_infos,
                  imports |-> imports_in(tree),
                  docstring |-> extract_docstring(tree.first_stmt)]

\* get_function_details(file_path, function_name)
get_function_details(files, file_path, function_name) ==
    LET ast_result == get_ast_from_file(files, file_path)
    IN  IF IsError(ast_result) THEN ast_result
        ELSE
        LET tree == ast_result.tree
            found == SelectSeq(walk(tree),
                               LAMBDA i : IsFunctionNode(tree.nodes[i])
                                          /\ tree.nodes[i].name = function_name)
        IN  IF found # <<>> THEN extract_function_info(tree.nodes[found[1]])
            ELSE Error(<<"F", "u", "n", "c", "t", "i", "o", "n", " ", "\"">> \o function_name \o <<"\"", " ", "n", "o", "t", " ", "f", "o", "u", "n", "d", " ", "i", "n", " ">> \o file_path)

\* get_class_details(file_path, class_name)
get_class_details(files, file_path, class_name) ==
    LET ast_result == get_ast_from_file(files, file_path)
    IN  IF IsError(ast_result) THEN ast_result
        ELSE
        LET tree == ast_result.tree
            found == SelectSeq(walk(tree),
                               LAMBDA i : IsClassNode(tree.nodes[i])
                                          /\ tree.nodes[i].name = class_name)
        IN  IF found # <<>> THEN extract_class_info(tree, found[1])
            ELSE Error(<<"C", "l", "a", "s", "s", " ", "\"">> \o class_name \o <<"\"", " ", "n", "o", "t", " ", "f", "o", "u", "n", "d", " ", "i", "n", " ">> \o file_path)

\* find_imports_in_file(file_path)
find_imports_in_file(files, file_path) ==
    LET ast_result == get_ast_from_file(files, file_path)
    IN  IF IsError(ast_result) THEN ast_result
        ELSE [file_path |-> file_path,
              imports |-> imports_in(ast_result.tree),
              total_imports |-> Len(imports_in(ast_result.tree))]

\* func_types of get_type_hints_from_file: the positional parameters' types
func_types(node) ==
    [name |-> node.name,
     parameters |-> [k \in 1..Len(node.args.args) |->
                        [name |-> node.args.args[k].arg,
                         type |-> get_type_annotation(node.args.args[k].annotation)]],
     return_type |-> get_type_annotation(node.returns),
     line_number |-> node.lineno]

\* the class entry of that name, created at the end of the list when absent
WithClassEntry(entries, name) ==
    IF \E k \in DOMAIN entries : entries[k].name = name THEN entries
    ELSE Append(entries, [name |-> name, methods |-> <<>>, class_variables |-> <<>>])

ClassEntryIndex(entries, name) ==
    CHOOSE k \in DOMAIN entries :
        entries[k].name = name /\ \A j \in DOMAIN entries : entries[j].name = name => k <= j

\* type_hints['classes'] after the nodes order[k..] are visited
RECURSIVE type_hint_classes(_, _, _, _)
type_hint_classes(tree, order, k, entries) ==
    IF k > Len(order) THEN entries
    ELSE LET node == tree.nodes[order[k]]
         IN  IF IsFunctionNode(node) /\ is_method(tree, order[k])
             THEN LET parent_class == tree.nodes[node.parent].name
                      with == WithClassEntry(entries, parent_class)
                      at == ClassEntryIndex(with, parent_class)
                  IN  type_hint_classes(tree, order, k + 1,
                          [with EXCEPT ![at].methods = Append(@, func_types(node))])
             ELSE IF IsClassNode(node)
             THEN type_hint_classes(tree, order, k + 1, WithClassEntry(entries, node.name))
             ELSE type_hint_classes(tree, order, k + 1, entries)

\* get_type_hints_from_file(file_path).  Assignment statements are not among
\* the modelled nodes, so variables is the empty list.
get_type_hints_from_file(files, file_path) ==
    LET ast_result == get_ast_from_file(files, file_path)
    IN  IF IsError(ast_result) THEN ast_result
        ELSE
        LET tree == ast_result.tree
            order == walk(tree)
            funcs == SelectSeq(order, LAMBDA i : IsFunctionNode(tree.nodes[i])
                                                   /\ ~is_method(tree, i))
        IN  [file_path |-> file_path,
             functions |-> [k \in 1..Len(funcs) |-> func_types(tree.nodes[funcs[k]])],
             classes |-> type_hint_classes(tree, order, 1, <<>>),
             variables |-> <<>>]

(***************************************************************************)
(* One module under edit: m.py grows one definition at a time, anywhere    *)
(* in the tree, and parse_module reads it.                                 *)
(***************************************************************************)

MaxNodes == 3

ModulePath == <<"m", ".", "p", "y">>

\* def f(self)
SelfSignature ==
    Arguments(<<>>, <<Arg(<<"s", "e", "l", "f">>, NoExpr)>>, NoArg, <<>>, NoArg, <<>>)

\* def f()
NoParameters == Arguments(<<>>, <<>>, NoArg, <<>>, NoArg, <<>>)

\* def f(p1=1, /)
PosOnlyDefaultSignature == Signature(1, 0, FALSE, 0, FALSE, 1)

DefinitionKinds == {"def", "async def", "property", "posonly default", "class"}

\* the i-th definition statement of a file, written into the body of `parent`:
\*   def f<i>(): pass            async def f<i>(): pass
\*   @property                   def f<i>(p1=1, /): pass
\*   def f<i>(self): pass        class C<i>: pass
Definition(kind, parent, i) ==
    CASE kind = "def" ->
            FunctionDef("FunctionDef", parent, <<"f", Digits[i + 1]>>, NoParameters,
                        <<>>, NoExpr, PassStmt, i)
      [] kind = "async def" ->
            FunctionDef("AsyncFunctionDef", parent, <<"f", Digits[i + 1]>>, NoParameters,
                        <<>>, NoExpr, PassStmt, i)
      [] kind = "property" ->
            FunctionDef("FunctionDef", parent, <<"f", Digits[i + 1]>>, SelfSignature,
                        <<Name(<<"p", "r", "o", "p", "e", "r", "t", "y">>)>>, NoExpr, PassStmt, i)
      [] kind = "posonly default" ->
            FunctionDef("FunctionDef", parent, <<"f", Digits[i + 1]>>,
                        PosOnlyDefaultSignature, <<>>, NoExpr, PassStmt, i)
      [] kind = "class" ->
            ClassDef(parent, <<"C", Digits[i + 1]>>, <<>>, <<>>, PassStmt, i)

\* the file is written for the first time
CreateFile(path, file) ==
    /\ path \notin DOMAIN fs
    /\ \A i \in DOMAIN path :
          (path[i] = "/" /\ SubSeq(path, 1, i - 1) \in DOMAIN fs) =>
              fs[SubSeq(path, 1, i - 1)].kind = "dir"
    /\ fs' = [p \in DOMAIN fs \cup {path} |-> IF p = path THEN file ELSE fs[p]]
    /\ call' = NoCall
    /\ result' = NoResult

CreateModule == CreateFile(ModulePath, SourceFile(EmptyModule))

\* a definition is added to the body of the module, of a class or of a function
AppendDefinition(path, max) ==
    /\ path \in DOMAIN fs
    /\ fs[path].parse = "ok"
    /\ Len(fs[path].module.nodes) < max
    /\ \E kind \in DefinitionKinds, parent \in 0..Len(fs[path].module.nodes) :
          /\ parent # 0 =>
                (IsFunctionNode(fs[path].module.nodes[parent])
                 \/ IsClassNode(fs[path].module.nodes[parent]))
          /\ fs' = [fs EXCEPT ![path].module.nodes =
                       Append(@, Definition(kind, parent, Len(@) + 1))]
    /\ call' = NoCall
    /\ result' = NoResult

EditModule == AppendDefinition(ModulePath, MaxNodes)

\* a path under the project root where no file is
MissingPath == <<"g", "o", "n", "e", ".", "p", "y">>

\* parse_module(file_path)
ParseModule ==
    \E path \in DOMAIN fs \cup {MissingPath} :
        /\ call' = [op |-> "parse_module", file_path |-> path]
        /\ result' = parse_module_ast(fs, path)
        /\ UNCHANGED fs

\* the names of the definitions of a file, and one that is not in it
NamesIn(files, path) ==
    IF path \in DOMAIN files
    THEN {files[path].module.nodes[i].name : i \in 1..Len(files[path].module.nodes)}
         \cup {<<"n", "o", "p", "e">>}
    ELSE {<<"n", "o", "p", "e">>}

\* get_function_details(file_path, function_name)
GetFunctionDetails ==
    \E path \in DOMAIN fs \cup {MissingPath} :
        \E name \in NamesIn(fs, path) :
            /\ call' = [op |-> "get_function_details", file_path |-> path, name |-> name]
            /\ result' = get_function_details(fs, path, name)
            /\ UNCHANGED fs

\* get_class_details(file_path, class_name)
GetClassDetails ==
    \E path \in DOMAIN fs \cup {MissingPath} :
        \E name \in NamesIn(fs, path) :
            /\ call' = [op |-> "get_class_details", file_path |-> path, name |-> name]
            /\ result' = get_class_details(fs, path, name)
            /\ UNCHANGED fs

\* find_imports(file_path)
FindImports ==
    \E path \in DOMAIN fs \cup {MissingPath} :
        /\ call' = [op |-> "find_imports", file_path |-> path]
        /\ result' = find_imports_in_file(fs, path)
        /\ UNCHANGED fs

\* get_type_hints(file_path)
GetTypeHints ==
    \E path \in DOMAIN fs \cup {MissingPath} :
        /\ call' = [op |-> "get_type_hints", file_path |-> path]
        /\ result' = get_type_hints_from_file(fs, path)
        /\ UNCHANGED fs

SpecModule ==
    Init /\ [][CreateModule \/ EditModule \/ ParseModule \/ GetFunctionDetails
               \/ GetClassDetails \/ FindImports \/ GetTypeHints]_vars

\* the definitions (def and async def) of the file parse_module was called on
Definitions(nodes) == {i \in 1..Len(nodes) : IsFunctionNode(nodes[i])}

ParsedNodes == fs[call.file_path].module.nodes

\* parse_module returned a ModuleSymbols value
ParseModuleReturned ==
    call.op = "parse_module" /\ ~IsRaised(result) /\ ~IsError(result)

\* the line numbers of the entries of a list of FunctionInfo
LineNumbers(infos) == [k \in 1..Len(infos) |-> infos[k].line_number]

\* line numbers listed in 'functions', in some class's 'methods', in some
\* class's 'properties'
FunctionLines == LineNumbers(result.functions)
MethodLines ==
    Flatten([k \in 1..Len(result.classes) |-> LineNumbers(result.classes[k].methods)])
PropertyLines ==
    Flatten([k \in 1..Len(result.classes) |-> LineNumbers(result.classes[k].properties)])

Range(seq) == {seq[k] : k \in DOMAIN seq}

\* C1 as stated: functions + methods = the number of definitions, each
\* definition counted exactly once
C1_Original ==
    ParseModuleReturned =>
        /\ Len(FunctionLines) + Len(MethodLines) = Cardinality(Definitions(ParsedNodes))
        /\ Range(FunctionLines \o MethodLines) = Definitions(ParsedNodes)

\* C1 (amended): whenever parse_module returns a result, the entries of
\* 'functions', of the classes' 'methods' and of the classes' 'properties'
\* together are the definitions of the source, each exactly once: no
\* definition is in two of the lists or twice in one
C1_EachDefinitionOnce ==
    ParseModuleReturned =>
        LET all == FunctionLines \o MethodLines \o PropertyLines
        IN  /\ Len(all) = Cardinality(Definitions(ParsedNodes))
            /\ Range(all) = Definitions(ParsedNodes)
            /\ Range(FunctionLines) \cap Range(MethodLines) = {}

\* parse_module has run on a source with a class that has a property, and a
\* function nested in another function
C1_Witness ==
    /\ ParseModuleReturned
    /\ Len(PropertyLines) > 0
    /\ \E i \in Definitions(ParsedNodes) :
          ParsedNodes[i].parent # 0 /\ IsFunctionNode(ParsedNodes[ParsedNodes[i].parent])

\* C2: every entry of 'functions' is a top-level function of the module:
\* neither nested in a function or method nor a direct child of a class
C2_FunctionsAreTopLevel ==
    ParseModuleReturned =>
        \A k \in 1..Len(FunctionLines) : ParsedNodes[FunctionLines[k]].parent = 0

\* the error value the parser adapter returns for the path of the call
AdapterError == get_ast_from_file(fs, call.file_path)

\* the operation's own not-found value for a name the file does not define
IsSymbolNotFound(v) ==
    /\ IsError(v)
    /\ call.op \in {"get_function_details", "get_class_details"}
    /\ IsSubstr(<<"\"", " ", "n", "o", "t", " ", "f", "o", "u", "n", "d", " ", "i", "n", " ">>, v.error)

\* the keys of a fully populated result of each single-file operation
ResultKeys(op) ==
    CASE op = "parse_module" -> {"file_path", "functions", "classes", "imports", "docstring"}
      [] op = "get_function_details" ->
            {"name", "type", "docstring", "parameters", "return_type", "decorators",
             "line_number"}
      [] op = "get_class_details" ->
            {"name", "type", "docstring", "base_classes", "methods", "properties",
             "class_variables", "decorators", "line_number"}
      [] op = "find_imports" -> {"file_path", "imports", "total_imports"}
      [] op = "get_type_hints" -> {"file_path", "functions", "classes", "variables"}

SingleFileOperations ==
    {"parse_module", "get_function_details", "get_class_details", "find_imports",
     "get_type_hints"}

\* C10: parse_module, get_function_details, get_class_details, find_imports
\* and get_type_hints never raise on a syntactically valid source, and return
\* either a fully populated result or the parser adapter's error unchanged
\* (or, for a name the file does not define, the operation's not-found value)
C10_AllOrNothingNeverRaises ==
    call.op \in SingleFileOperations =>
        /\ ~IsRaised(result)
        /\ IsError(result) =>
              /\ DOMAIN result = {"error"}
              /\ IsSymbolNotFound(result) \/ result = AdapterError
        /\ ~IsError(result) => DOMAIN result = ResultKeys(call.op)

(***************************************************************************)
(* The parser adapter over a project of files of every kind                *)
(***************************************************************************)

MaxFiles == 2

\* paths the adapter is asked for: Python and other extensions, a file in a
\* directory, and that directory
AdapterPaths == {<<"m", ".", "p", "y">>, <<"n", ".", "p", "y", "i">>, <<"n", "o", "t", "e", "s", ".", "t", "x", "t">>, <<"p", "k", "g", "/", "x", ".", "p", "y">>, <<"p", "k", "g">>}

\* what can be at a path: a module that parses, one with a syntax error, one
\* on which ast.parse fails otherwise, a file that cannot be opened, a file
\* that is not UTF-8, a directory
FileKinds ==
    {SourceFile(EmptyModule), BrokenFile("SyntaxError"), BrokenFile("RecursionError"),
     UnreadableFile, UndecodableFile, Directory}

\* a file or directory appears in the project
CreateAnyFile ==
    /\ Cardinality(DOMAIN fs) < MaxFiles
    /\ \E path \in AdapterPaths, file \in FileKinds :
          /\ ~IsDirectory(fs, path)
          /\ CreateFile(path, file)

\* get_ast_from_file(file_path)
GetAstFromFile ==
    \E path \in AdapterPaths :
        /\ call' = [op |-> "get_ast_from_file", file_path |-> path]
        /\ result' = get_ast_from_file(fs, path)
        /\ UNCHANGED fs

SpecAdapter == Init /\ [][CreateAnyFile \/ GetAstFromFile]_vars

\* the kind of a returned value, read off the error text
ResultKind(v) ==
    IF ~IsError(v) THEN IF DOMAIN v = {"tree"} THEN "tree" ELSE "other"
    ELSE IF StartsWith(v.error, <<"F", "i", "l", "e", " ", "n", "o", "t", " ", "f", "o", "u", "n", "d", ":", " ">>) THEN "File not found"
    ELSE IF StartsWith(v.error, <<"N", "o", "t", " ", "a", " ", "P", "y", "t", "h", "o", "n", " ", "f", "i", "l", "e", ":", " ">>) THEN "Not a Python file"
    ELSE IF StartsWith(v.error, <<"S", "y", "n", "t", "a", "x", " ", "e", "r", "r", "o", "r", " ", "i", "n", " ">>) THEN "Syntax error"
    ELSE IF StartsWith(v.error, <<"E", "r", "r", "o", "r", " ", "p", "a", "r", "s", "i", "n", "g", " ">>) THEN "Error parsing"
    ELSE "other"

\* the path names a file or directory of the project
InProject(path) ==
    \/ path \in DOMAIN fs
    \/ \E q \in DOMAIN fs : StartsWith(q, path \o <<"/">>)

HasPythonExtension(path) == EndsWith(path, <<".", "p", "y">>) \/ EndsWith(path, <<".", "p", "y", "i">>)

\* the path is a regular file whose text can be read and decoded
TextCanBeRead(path) ==
    /\ path \in DOMAIN fs
    /\ fs[path].kind = "file" /\ fs[path].readable /\ fs[path].decodable

\* C9: get_ast_from_file never raises; it returns a parse tree or an error of
\* exactly one kind, decided in this order: the path does not exist -> 'File
\* not found'; it exists but has no Python extension -> 'Not a Python file';
\* the content does not parse -> 'Syntax error'; a read or decode failure ->
\* 'Error parsing'
C9_AdapterErrorKinds ==
    call.op = "get_ast_from_file" =>
        LET path == call.file_path
        IN  /\ ~IsRaised(result)
            /\ ResultKind(result) \in
                  {"tree", "File not found", "Not a Python file", "Syntax error",
                   "Error parsing"}
            /\ ~InProject(path) => ResultKind(result) = "File not found"
            /\ (InProject(path) /\ ~HasPythonExtension(path)) =>
                  ResultKind(result) = "Not a Python file"
            /\ (InProject(path) /\ HasPythonExtension(path) /\ ~TextCanBeRead(path)) =>
                  ResultKind(result) = "Error parsing"
            /\ (InProject(path) /\ HasPythonExtension(path) /\ TextCanBeRead(path)
                /\ fs[path].parse = "SyntaxError") => ResultKind(result) = "Syntax error"
            /\ ResultKind(result) = "tree" =>
                  (TextCanBeRead(path) /\ HasPythonExtension(path) /\ fs[path].parse = "ok")

\* the adapter was asked for a path that does not exist and has no Python
\* extension, where the order of the first two checks shows
C9_Witness ==
    /\ call.op = "get_ast_from_file"
    /\ ~InProject(call.file_path)
    /\ ~HasPythonExtension(call.file_path)
    /\ ResultKind(result) = "File not found"
    /\ \E p \in DOMAIN fs : fs[p].parse = "SyntaxError"

(***************************************************************************)
(* Finding the test files of a directory                                   *)
(***************************************************************************)

\* the characters of the modelled paths, in code-point order
CodePoints ==
    <<".", "/">> \o Digits \o UpperLetters \o <<"_">> \o LowerLetters

Ord(c) == CHOOSE i \in DOMAIN CodePoints : CodePoints[i] = c

\* a < b on Python str
RECURSIVE StrLess(_, _)
StrLess(a, b) ==
    IF b = <<>> THEN FALSE
    ELSE IF a = <<>> THEN TRUE
    ELSE IF Head(a) # Head(b) THEN Ord(Head(a)) < Ord(Head(b))
    ELSE StrLess(Tail(a), Tail(b))

\* s.split(sep) for a one-character separator
RECURSIVE Split(_, _)
Split(s, sep) ==
    IF \E i \in DOMAIN s : s[i] = sep
    THEN LET i == CHOOSE k \in DOMAIN s : s[k] = sep /\ \A j \in 1..(k - 1) : s[j] # sep
         IN  <<SubSeq(s, 1, i - 1)>> \o Split(SubSeq(s, i + 1, Len(s)), sep)
    ELSE <<s>>

\* config.project_root, an absolute path
project_root == <<"/", "s", "r", "v", "/", "p", "r", "o", "j", "e", "c", "t">>

\* Path.parts of root / path, for an absolute root
PartsUnder(root, path) ==
    <<<<"/">>>> \o Tail(Split(root, "/")) \o Split(path, "/")

\* Path.parts of project_root / path
AbsoluteParts(path) == PartsUnder(project_root, path)

\* config.ignore_dirs, config.ignore_files
ignore_dirs ==
    {<<".", "g", "i", "t">>, <<".", "v", "e", "n", "v">>, <<"v", "e", "n", "v">>, <<"_", "_", "p", "y", "c", "a", "c", "h", "e", "_", "_">>, <<".", "p", "y", "t", "e", "s", "t", "_", "c", "a", "c", "h", "e">>,
     <<"n", "o", "d", "e", "_", "m", "o", "d", "u", "l", "e", "s">>, <<".", "t", "o", "x">>, <<"b", "u", "i", "l", "d">>, <<"d", "i", "s", "t">>, <<".", "e", "g", "g", "s">>, <<"e", "n", "v">>,
     <<".", "c", "o", "v", "e", "r", "a", "g", "e">>, <<".", "m", "y", "p", "y", "_", "c", "a", "c", "h", "e">>, <<".", "r", "u", "f", "f", "_", "c", "a", "c", "h", "e">>}
ignore_files ==
    {<<".", "D", "S", "_", "S", "t", "o", "r", "e">>, <<".", "g", "i", "t", "i", "g", "n", "o", "r", "e">>, <<".", "g", "i", "t", "m", "o", "d", "u", "l", "e", "s">>, <<"T", "h", "u", "m", "b", "s", ".", "d", "b">>, <<".", "c", "o", "v", "e", "r", "a", "g", "e">>,
     <<".", "c", "o", "v", "e", "r", "a", "g", "e", "r", "c">>, <<".", "p", "y", "t", "h", "o", "n", "-", "v", "e", "r", "s", "i", "o", "n">>}

\* config.is_ignored_path(root / path) when config.project_root is root
is_ignored_path_under(root, path) ==
    LET parts == PartsUnder(root, path)
    IN  \/ \E i \in DOMAIN parts :
              \/ parts[i] \in ignore_dirs
              \/ (StartsWith(parts[i], <<".">>) /\ parts[i] \notin {<<".", ".">>, <<".">>})
        \/ PathName(path) \in ignore_files

\* config.is_ignored_path(project_root / path)
is_ignored_path(path) == is_ignored_path_under(project_root, path)

\* a glob pattern with at most one *: what stands before and after the star
Glob(prefix, star, suffix) == [prefix |-> prefix, star |-> star, suffix |-> suffix]

\* test_patterns of find_test_files
test_patterns ==
    <<Glob(<<"t", "e", "s", "t", "_">>, TRUE, <<".", "p", "y">>), Glob(<<>>, TRUE, <<"_", "t", "e", "s", "t", ".", "p", "y">>),
      Glob(<<"t", "e", "s", "t", "s", ".", "p", "y">>, FALSE, <<>>)>>

\* fnmatch of a file name against a pattern
fnmatch(name, pattern) ==
    IF pattern.star
    THEN /\ Len(name) >= Len(pattern.prefix) + Len(pattern.suffix)
         /\ StartsWith(name, pattern.prefix)
         /\ EndsWith(name, pattern.suffix)
    ELSE name = pattern.prefix

\* the path lies below the directory (<<>> is the project root)
IsBelow(path, directory) ==
    directory \in {<<>>, <<".">>} \/ StartsWith(path, directory \o <<"/">>)

\* directory.rglob(pattern), as a set: the order of a directory scan is the
\* file system's, and find_test_files sorts what it collects
rglob(files, directory, pattern) ==
    {p \in DOMAIN files : IsBelow(p, directory) /\ fnmatch(PathName(p), pattern)}

\* str(Path(path).parent)
ParentPath(path) ==
    IF LastIndexOf(path, "/") = 0 THEN <<".">>
    ELSE SubSeq(path, 1, LastIndexOf(path, "/") - 1)

\* the paths of a set in ascending order, each as often as `count` says
RECURSIVE SortedPaths(_, _)
SortedPaths(paths, count) ==
    IF paths = {} THEN <<>>
    ELSE LET least == CHOOSE p \in paths : \A q \in paths \ {p} : StrLess(p, q)
         IN  [k \in 1..count[least] |-> least] \o SortedPaths(paths \ {least}, count)

\* find_test_files(directory) when config.project_root is root: one entry
\* per pattern that a file's name matches, sorted by path.  The size and
\* the modification time that stat() reports are not modelled.
find_test_files_under(root, files, directory) ==
    LET found(k) == {p \in rglob(files, directory, test_patterns[k]) :
                        files[p].kind = "file" /\ ~is_ignored_path_under(root, p)}
        all == UNION {found(k) : k \in DOMAIN test_patterns}
        times == [p \in all |-> Cardinality({k \in DOMAIN test_patterns : p \in found(k)})]
        order == SortedPaths(all, times)
    IN  [k \in 1..Len(order) |->
            [path |-> order[k], name |-> PathName(order[k]),
             directory |-> ParentPath(order[k]), is_test |-> TRUE]]

\* find_test_files(directory) with config.project_root at project_root
find_test_files(files, directory) == find_test_files_under(project_root, files, directory)

(***************************************************************************)
(* ast.walk over the expressions too: the Call nodes of a test file        *)
(***************************************************************************)

\* an expression statement in a body: ast.Expr
Expr(parent, value, lineno) ==
    [type |-> "Expr", parent |-> parent, field |-> "body", value |-> value,
     lineno |-> lineno]

\* What ast.walk visits: a statement of the arena, an expression with the
\* line it stands on, or a node that only holds others (ast.arguments,
\* ast.arg, ast.keyword).
StmtItem(i) == [item |-> "stmt", i |-> i]
ExprItem(e, lineno) == [item |-> "expr", e |-> e, lineno |-> lineno]
HolderItem(items) == [item |-> "holder", items |-> items]

ExprItems(exprs, lineno) ==
    [k \in 1..Len(SelectSeq(exprs, LAMBDA e : e # NoExpr)) |->
        ExprItem(SelectSeq(exprs, LAMBDA e : e # NoExpr)[k], lineno)]

\* the decorators stand on the lines before the def or class line
DecoratorItems(node) ==
    [k \in 1..Len(node.decorator_list) |->
        ExprItem(node.decorator_list[k],
                 node.lineno - (Len(node.decorator_list) - k + 1))]

\* ast.arguments and its children, in the order of its _fields
ArgumentsItem(args, lineno) ==
    LET ArgItem(a) == HolderItem(ExprItems(<<a.annotation>>, lineno))
        ArgItems(as) == [k \in 1..Len(as) |-> ArgItem(as[k])]
    IN  HolderItem(ArgItems(args.posonlyargs) \o ArgItems(args.args)
                   \o (IF args.vararg # NoArg THEN <<ArgItem(args.vararg)>> ELSE <<>>)
                   \o ArgItems(args.kwonlyargs)
                   \o (IF args.kwarg # NoArg THEN <<ArgItem(args.kwarg)>> ELSE <<>>)
                   \o ExprItems(args.defaults, lineno))

\* ast.iter_child_nodes(item)
iter_child_nodes(nodes, item) ==
    CASE item.item = "stmt" ->
            LET node == nodes[item.i]
                body == [k \in 1..Len(ChildrenOf(nodes, item.i)) |->
                            StmtItem(ChildrenOf(nodes, item.i)[k])]
            IN  CASE IsFunctionNode(node) ->
                        <<ArgumentsItem(node.args, node.lineno)>> \o body
                        \o DecoratorItems(node) \o ExprItems(<<node.returns>>, node.lineno)
                  [] IsClassNode(node) ->
                        ExprItems(node.bases, node.lineno) \o body \o DecoratorItems(node)
                  [] node.type = "Expr" -> ExprItems(<<node.value>>, node.lineno)
                  [] OTHER -> <<>>
      [] item.item = "holder" -> item.items
      [] item.item = "expr" ->
            CASE item.e.node = "Call" ->
                    ExprItems(<<item.e.func>> \o item.e.args, item.lineno)
                    \o [k \in 1..Len(item.e.keywords) |->
                           HolderItem(ExprItems(<<item.e.keywords[k].value>>, item.lineno))]
              [] item.e.node = "Attribute" -> ExprItems(<<item.e.value>>, item.lineno)
              [] OTHER -> <<>>

RECURSIVE WalkItems(_, _)
WalkItems(nodes, queue) ==
    IF queue = <<>> THEN <<>>
    ELSE <<Head(queue)>>
         \o WalkItems(nodes, Tail(queue) \o iter_child_nodes(nodes, Head(queue)))

\* the ast.Call nodes of the tree in ast.walk order, each with its line
calls_in(tree) ==
    LET top == [k \in 1..Len(ChildrenOf(tree.nodes, 0)) |->
                   StmtItem(ChildrenOf(tree.nodes, 0)[k])]
    IN  SelectSeq(WalkItems(tree.nodes, top),
                  LAMBDA it : it.item = "expr" /\ it.e.node = "Call")

(***************************************************************************)
(* _detect_framework_context                                               *)
(***************************************************************************)

\* any(pattern in text for pattern in patterns)
AnyIn(patterns, text) == \E p \in patterns : IsSubstr(p, text)

\* a variant of d.get(key, '') that never finds the key
GetOrEmpty_never_found(d, key) == <<>>

\* d.get(key, '') on an imports entry
GetOrEmpty(d, key) == IF key \in DOMAIN d THEN d[key] ELSE <<>>

\* the number of entries of a list that satisfy a condition
CountOf(list, Cond(_)) == Cardinality({i \in DOMAIN list : Cond(list[i])})

\* a variant of the class part that never looks at the base classes
class_context_ignoring_bases(tree, c, node, file_imports) == "undecided"

\* The class part of the classifier for the class that is node c: the label
\* it returns when a def in the body of c has the name and the line of
\* `node`, "undecided" when the loop goes on to the next class.
class_context(tree, c, node, file_imports) ==
    LET class_node == tree.nodes[c]
        is_method_of == \E m \in DOMAIN tree.nodes :
                            /\ tree.nodes[m].parent = c
                            /\ tree.nodes[m].field = "body"
                            /\ IsFunctionNode(tree.nodes[m])
                            /\ tree.nodes[m].name = node.name
                            /\ tree.nodes[m].lineno = node.lineno
        is_unittest_class == \E b \in DOMAIN class_node.bases :
                                 AnyIn({<<"T", "e", "s", "t", "C", "a", "s", "e">>, <<"u", "n", "i", "t", "t", "e", "s", "t">>}, unparse(class_node.bases[b]))
        pytest_imports == \E k \in DOMAIN file_imports :
                              IsSubstr(<<"p", "y", "t", "e", "s", "t">>, Lower(GetOrEmpty(file_imports[k], "module")))
    IN  IF ~is_method_of THEN "undecided"
        ELSE IF is_unittest_class THEN "unittest"
        ELSE IF StartsWith(class_node.name, <<"T", "e", "s", "t">>) /\ pytest_imports THEN "pytest"
        ELSE "undecided"

\* the first label in a list of labels that is not "undecided"
FirstDecided(labels) ==
    IF \E k \in DOMAIN labels : labels[k] # "undecided"
    THEN labels[CHOOSE k \in DOMAIN labels :
                    labels[k] # "undecided" /\ \A j \in 1..(k - 1) : labels[j] = "undecided"]
    ELSE "undecided"

\* _detect_framework_context(file_path, node, func_info, file_imports)
_detect_framework_context(files, file_path, node, func_info, file_imports) ==
    LET current_file_tree == get_ast_from_file(files, file_path)
        from_class ==
            IF IsError(current_file_tree) THEN "undecided"
            ELSE LET tree == current_file_tree.tree
                     classes == SelectSeq(walk(tree), LAMBDA i : IsClassNode(tree.nodes[i]))
                 IN  FirstDecided([k \in 1..Len(classes) |->
                                      class_context(tree, classes[k], node, file_imports)])
        module(imp) == Lower(GetOrEmpty(imp, "module"))
        name(imp) == Lower(GetOrEmpty(imp, "name"))
        is_pytest_import(imp) ==
            IsSubstr(<<"p", "y", "t", "e", "s", "t">>, module(imp)) \/ IsSubstr(<<"p", "y", "t", "e", "s", "t">>, name(imp))
        is_unittest_import(imp) ==
            /\ ~is_pytest_import(imp)
            /\ \/ IsSubstr(<<"u", "n", "i", "t", "t", "e", "s", "t">>, module(imp)) \/ IsSubstr(<<"u", "n", "i", "t", "t", "e", "s", "t">>, name(imp))
               \/ /\ (module(imp) = <<"m", "o", "c", "k">> \/ name(imp) = <<"m", "o", "c", "k">>)
                  /\ IsSubstr(<<"u", "n", "i", "t", "t", "e", "s", "t">>, module(imp))
        is_pytest_decorator(dec) ==
            AnyIn({<<"p", "y", "t", "e", "s", "t", ".">>, <<"p", "a", "r", "a", "m", "e", "t", "r", "i", "z", "e">>, <<"f", "i", "x", "t", "u", "r", "e">>, <<"m", "a", "r", "k", ".">>}, Lower(dec))
        is_unittest_decorator(dec) ==
            ~is_pytest_decorator(dec) /\ AnyIn({<<"u", "n", "i", "t", "t", "e", "s", "t", ".">>, <<"m", "o", "c", "k", ".", "p", "a", "t", "c", "h">>}, Lower(dec))
        pytest_indicators == CountOf(file_imports, is_pytest_import)
        unittest_indicators == CountOf(file_imports, is_unittest_import)
                               + CountOf(func_info.decorators, is_unittest_decorator)
        parameters == func_info.parameters
        is_fixture_name(param) ==
            param.name \in {<<"r", "e", "q", "u", "e", "s", "t">>, <<"t", "m", "p", "_", "p", "a", "t", "h">>, <<"t", "m", "p", "d", "i", "r">>, <<"c", "a", "p", "f", "d">>, <<"c", "a", "p", "s", "y", "s">>,
                            <<"m", "o", "n", "k", "e", "y", "p", "a", "t", "c", "h">>}
        is_self(param) == param.name = <<"s", "e", "l", "f">> /\ parameters[1].name = <<"s", "e", "l", "f">>
        from_parameters ==
            FirstDecided([k \in 1..Len(parameters) |->
                             IF is_fixture_name(parameters[k]) THEN "pytest"
                             ELSE IF is_self(parameters[k]) THEN "unittest"
                             ELSE "undecided"])
    IN  IF from_class # "undecided" THEN from_class
        ELSE IF \E k \in DOMAIN func_info.decorators :
                    is_pytest_decorator(func_info.decorators[k]) THEN "pytest"
        ELSE IF from_parameters # "undecided" THEN from_parameters
        ELSE IF node.name \in {<<"s", "e", "t", "U", "p">>, <<"t", "e", "a", "r", "D", "o", "w", "n">>, <<"s", "e", "t", "U", "p", "C", "l", "a", "s", "s">>, <<"t", "e", "a", "r", "D", "o", "w", "n", "C", "l", "a", "s", "s">>}
        THEN "unittest"
        ELSE IF StartsWith(node.name, <<"t", "e", "s", "t", "_">>) /\ Len(parameters) > 1 THEN "pytest"
        ELSE IF pytest_indicators > unittest_indicators THEN "pytest"
        ELSE IF unittest_indicators > pytest_indicators THEN "unittest"
        ELSE "pytest"

(***************************************************************************)
(* analyze_test_files                                                      *)
(***************************************************************************)

\* the first position at or after `from` where `text` holds `piece`, 0 if none
FindFrom(piece, text, from) ==
    LET at == {i \in from..(Len(text) - Len(piece) + 1) :
                  SubSeq(text, i, i + Len(piece) - 1) = piece}
    IN  IF at = {} THEN 0 ELSE CHOOSE i \in at : \A j \in at : i <= j

Quotes == {"'", "\""}

\* re.search(r'scope=[\'"](.*?)[\'"]', dec): <<group(1)>>, or <<>> for no
\* match.  The leftmost scope= that a quote follows and a later quote
\* closes; the group runs to the nearest closing quote.
scope_match(dec) ==
    LET starts == {i \in DOMAIN dec :
                      /\ i + 6 <= Len(dec)
                      /\ SubSeq(dec, i, i + 5) = <<"s", "c", "o", "p", "e", "=">>
                      /\ dec[i + 6] \in Quotes
                      /\ \E j \in (i + 7)..Len(dec) : dec[j] \in Quotes}
    IN  IF starts = {} THEN <<>>
        ELSE LET i == CHOOSE s \in starts : \A t \in starts : s <= t
                 j == CHOOSE c \in (i + 7)..Len(dec) :
                          dec[c] \in Quotes /\ \A b \in (i + 7)..(c - 1) : dec[b] \notin Quotes
             IN  <<SubSeq(dec, i + 7, j - 1)>>

\* re.search(r'autouse=(True|False)', dec): <<group(1)>>, or <<>> for no match
autouse_match(dec) ==
    LET t == FindFrom(<<"a", "u", "t", "o", "u", "s", "e", "=", "T", "r", "u", "e">>, dec, 1)
        f == FindFrom(<<"a", "u", "t", "o", "u", "s", "e", "=", "F", "a", "l", "s", "e">>, dec, 1)
    IN  IF t = 0 /\ f = 0 THEN <<>>
        ELSE IF f = 0 \/ (t # 0 /\ t < f) THEN <<<<"T", "r", "u", "e">>>>
        ELSE <<<<"F", "a", "l", "s", "e">>>>

\* the loop over func_info['decorators'] that fills scope and autouse, from
\* its k-th decorator
RECURSIVE fixture_options(_, _, _)
fixture_options(fixture_info, decorators, k) ==
    IF k > Len(decorators) THEN fixture_info
    ELSE LET dec == decorators[k]
             scoped == IF scope_match(dec) # <<>>
                       THEN [fixture_info EXCEPT !.scope = scope_match(dec)[1]]
                       ELSE fixture_info
             used == IF autouse_match(dec) # <<>>
                     THEN [scoped EXCEPT !.autouse = (autouse_match(dec)[1] = <<"T", "r", "u", "e">>)]
                     ELSE scoped
         IN  fixture_options(used, decorators, k + 1)

setup_teardown_names ==
    {<<"s", "e", "t", "U", "p">>, <<"t", "e", "a", "r", "D", "o", "w", "n">>, <<"s", "e", "t", "U", "p", "C", "l", "a", "s", "s">>, <<"t", "e", "a", "r", "D", "o", "w", "n", "C", "l", "a", "s", "s">>, <<"s", "e", "t", "U", "p", "M", "o", "d", "u", "l", "e">>,
     <<"t", "e", "a", "r", "D", "o", "w", "n", "M", "o", "d", "u", "l", "e">>, <<"s", "e", "t", "u", "p", "_", "m", "e", "t", "h", "o", "d">>, <<"t", "e", "a", "r", "d", "o", "w", "n", "_", "m", "e", "t", "h", "o", "d">>, <<"s", "e", "t", "u", "p", "_", "c", "l", "a", "s", "s">>,
     <<"t", "e", "a", "r", "d", "o", "w", "n", "_", "c", "l", "a", "s", "s">>}

\* the arm of the if/elif chain of the walk loop that takes a Call node: a
\* call of an attribute goes to the marker arm, so the assertion arm, which
\* asks the same question again, never runs
call_arm(node) ==
    IF node.func.node = "Attribute" THEN "markers"
    ELSE IF node.func.node = "Attribute" THEN "assertion_patterns"
    ELSE "mock_usage"

is_unittest_class(class_info) ==
    \E b \in DOMAIN class_info.base_classes :
        AnyIn({<<"T", "e", "s", "t", "C", "a", "s", "e">>, <<"u", "n", "i", "t", "t", "e", "s", "t">>}, class_info.base_classes[b])

test_class_info(node, class_info, file_path) ==
    [name |-> node.name,
     file_path |-> file_path,
     line_number |-> node.lineno,
     methods |-> Len(class_info.methods),
     docstring |-> class_info.docstring,
     framework |-> IF is_unittest_class(class_info) THEN "unittest" ELSE "pytest",
     base_classes |-> class_info.base_classes]

setup_teardown_info(node, method, file_path) ==
    [name |-> method.name,
     class_name |-> node.name,
     file_path |-> file_path,
     line_number |-> method.line_number,
     framework |-> IF method.name \in {<<"s", "e", "t", "U", "p">>, <<"t", "e", "a", "r", "D", "o", "w", "n">>, <<"s", "e", "t", "U", "p", "C", "l", "a", "s", "s">>, <<"t", "e", "a", "r", "D", "o", "w", "n", "C", "l", "a", "s", "s">>}
                   THEN "unittest" ELSE "pytest",
     scope |-> IF AnyIn({<<"C", "l", "a", "s", "s">>, <<"c", "l", "a", "s", "s">>}, method.name) THEN <<"c", "l", "a", "s", "s">> ELSE <<"m", "e", "t", "h", "o", "d">>]

\* the entries for the setup and teardown methods of one class
setup_teardown_of(node, methods, file_path) ==
    [j \in 1..Len(methods) |-> setup_teardown_info(node, methods[j], file_path)]

is_test_func(node, func_info) ==
    \/ StartsWith(node.name, <<"t", "e", "s", "t", "_">>)
    \/ \E d \in DOMAIN func_info.decorators : IsSubstr(<<"t", "e", "s", "t">>, func_info.decorators[d])

is_fixture(func_info) ==
    \E d \in DOMAIN func_info.decorators : IsSubstr(<<"f", "i", "x", "t", "u", "r", "e">>, func_info.decorators[d])

fixture_info(node, func_info, file_path) ==
    fixture_options([name |-> node.name,
                     file_path |-> file_path,
                     line_number |-> node.lineno,
                     scope |-> <<"f", "u", "n", "c", "t", "i", "o", "n">>,
                     params |-> func_info.parameters,
                     docstring |-> func_info.docstring,
                     autouse |-> FALSE],
                    func_info.decorators, 1)

test_func_info(files, file_path, node, func_info, file_imports) ==
    [name |-> node.name,
     file_path |-> file_path,
     line_number |-> node.lineno,
     parameters |-> func_info.parameters,
     docstring |-> func_info.docstring,
     decorators |-> func_info.decorators,
     framework |-> _detect_framework_context(files, file_path, node, func_info, file_imports)]

marker_info(c, file_path) ==
    [name |-> IF c.e.func.value.node = "Name" THEN c.e.func.value.id ELSE <<"u", "n", "k", "n", "o", "w", "n">>,
     file_path |-> file_path,
     line_number |-> c.lineno]

assertion_info(c, file_path) ==
    [method |-> c.e.func.attr,
     file_path |-> file_path,
     line_number |-> c.lineno,
     framework |-> IF StartsWith(c.e.func.attr, <<"a", "s", "s", "e", "r", "t">>) /\ Len(c.e.func.attr) > 6
                   THEN "unittest" ELSE "pytest"]

mock_info(c, file_path) ==
    [method |-> c.e.func.id, file_path |-> file_path, line_number |-> c.lineno]

\* the entries of a list, each made by `Entry` from a selected element
EntriesOf(selected, Entry(_)) == [j \in 1..Len(selected) |-> Entry(selected[j])]

\* What the walk over one parsed test file collects, given the class and
\* def nodes in ast.walk order (as numbers of the arena), what the
\* extractors return for them, and the Call nodes.
walk_lists(files, file_path, tree, file_imports, class_nodes, func_nodes, class_infos, func_infos, calls) ==
    [skipped |-> FALSE,
     entry |->
        [file_path |-> file_path,
         classes |-> class_infos,
         functions |-> func_infos,
         fixtures |->
            EntriesOf(SelectSeq([k \in 1..Len(func_nodes) |-> k],
                                LAMBDA k : is_fixture(func_infos[k])),
                      LAMBDA k : fixture_info(tree.nodes[func_nodes[k]], func_infos[k], file_path)),
         markers |->
            EntriesOf(SelectSeq(calls, LAMBDA c : call_arm(c.e) = "markers"
                                                  /\ c.e.func.attr = <<"m", "a", "r", "k">>),
                      LAMBDA c : marker_info(c, file_path)),
         unittest_classes |->
            EntriesOf(SelectSeq([k \in 1..Len(class_nodes) |-> k],
                                LAMBDA k : is_unittest_class(class_infos[k])),
                      LAMBDA k : test_class_info(tree.nodes[class_nodes[k]], class_infos[k],
                                                 file_path)),
         setup_teardown_methods |->
            Flatten([k \in 1..Len(class_nodes) |->
                        setup_teardown_of(tree.nodes[class_nodes[k]],
                                          SelectSeq(class_infos[k].methods,
                                                    LAMBDA m : m.name \in setup_teardown_names),
                                          file_path)]),
         assertion_patterns |->
            EntriesOf(SelectSeq(calls, LAMBDA c :
                                    /\ call_arm(c.e) = "assertion_patterns"
                                    /\ \/ StartsWith(c.e.func.attr, <<"a", "s", "s", "e", "r", "t">>)
                                       \/ c.e.func.attr \in {<<"a", "s", "s", "e", "r", "t", "E", "q", "u", "a", "l">>, <<"a", "s", "s", "e", "r", "t", "T", "r", "u", "e">>,
                                                             <<"a", "s", "s", "e", "r", "t", "F", "a", "l", "s", "e">>, <<"a", "s", "s", "e", "r", "t", "R", "a", "i", "s", "e", "s">>}),
                      LAMBDA c : assertion_info(c, file_path)),
         mock_usage |->
            EntriesOf(SelectSeq(calls, LAMBDA c : /\ call_arm(c.e) = "mock_usage"
                                                  /\ c.e.func.node = "Name"
                                                  /\ IsSubstr(<<"M", "o", "c", "k">>, c.e.func.id)),
                      LAMBDA c : mock_info(c, file_path)),
         imports |-> file_imports],
     test_classes |->
        [k \in 1..Len(class_nodes) |->
            test_class_info(tree.nodes[class_nodes[k]], class_infos[k], file_path)],
     test_functions |->
        EntriesOf(SelectSeq([k \in 1..Len(func_nodes) |-> k],
                            LAMBDA k : is_test_func(tree.nodes[func_nodes[k]], func_infos[k])),
                  LAMBDA k : test_func_info(files, file_path, tree.nodes[func_nodes[k]],
                                            func_infos[k], file_imports))]

\* the walk stops with the exception of the first extractor that raises
walk_infos(files, file_path, tree, file_imports, class_nodes, func_nodes) ==
    LET infos == [k \in 1..Len(class_nodes) |-> extract_class_info(tree, class_nodes[k])]
                 \o [k \in 1..Len(func_nodes) |->
                        extract_function_info(tree.nodes[func_nodes[k]])]
        Collect(all) ==
            IF AnyRaised(all) THEN FirstRaised(all)
            ELSE walk_lists(files, file_path, tree, file_imports, class_nodes, func_nodes,
                            SubSeq(all, 1, Len(class_nodes)),
                            SubSeq(all, Len(class_nodes) + 1, Len(all)),
                            calls_in(tree))
    IN  Collect(infos)

\* the imports of the file, [] when find_imports_in_file returns an error
file_imports_of(imports_result) ==
    IF "imports" \in DOMAIN imports_result THEN imports_result.imports ELSE <<>>

\* the part of the loop body of analyze_test_files after the file has parsed
walk_tree(files, file_path, tree, order) ==
    walk_infos(files, file_path, tree,
               file_imports_of(find_imports_in_file(files, file_path)),
               SelectSeq(order, LAMBDA i : IsClassNode(tree.nodes[i])),
               SelectSeq(order, LAMBDA i : IsFunctionNode(tree.nodes[i])))

\* What one test file adds to the analysis: nothing when it does not parse,
\* the exception when an extractor raises, its lists otherwise.
file_analysis(files, file_path) ==
    LET Analyse(tree_result) ==
            IF IsError(tree_result) THEN [skipped |-> TRUE]
            ELSE walk_tree(files, file_path, tree_result.tree, walk(tree_result.tree))
    IN  Analyse(get_ast_from_file(files, file_path))

\* a variant of the count that leaves the files out that did not parse
total_test_files_parsed(test_files, parsed) == Len(parsed)

\* analysis['total_test_files'] = len(test_files)
total_test_files(test_files, parsed) == Len(test_files)

\* the lists of the files that parsed, one after the other
Gather(parsed, List(_)) == Flatten([k \in 1..Len(parsed) |-> List(parsed[k])])

\* the analysis, from what each test file added
analysis_of(test_files, analysed, parsed) ==
    IF AnyRaised(analysed) THEN FirstRaised(analysed)
    ELSE [total_test_files |-> total_test_files(test_files, parsed),
          test_files |-> [k \in 1..Len(parsed) |-> parsed[k].entry],
          test_classes |-> Gather(parsed, LAMBDA a : a.test_classes),
          test_functions |-> Gather(parsed, LAMBDA a : a.test_functions),
          fixtures |-> Gather(parsed, LAMBDA a : a.entry.fixtures),
          markers |-> Gather(parsed, LAMBDA a : a.entry.markers),
          imports |-> Gather(parsed, LAMBDA a : a.entry.imports),
          unittest_classes |-> Gather(parsed, LAMBDA a : a.entry.unittest_classes),
          pytest_fixtures |-> Gather(parsed, LAMBDA a : a.entry.fixtures),
          setup_teardown_methods |-> Gather(parsed, LAMBDA a : a.entry.setup_teardown_methods),
          assertion_patterns |-> Gather(parsed, LAMBDA a : a.entry.assertion_patterns),
          mock_usage |-> Gather(parsed, LAMBDA a : a.entry.mock_usage)]

\* the loop over the test files
analyse_files(files, test_files) ==
    LET Aggregate(analysed) ==
            analysis_of(test_files, analysed,
                        SelectSeq(analysed, LAMBDA a : ~IsRaised(a) /\ ~a.skipped))
    IN  Aggregate([k \in 1..Len(test_files) |-> file_analysis(files, test_files[k].path)])

\* analyze_test_files(directory); directory is None or a path below the root
analyze_test_files(files, directory) ==
    IF directory # None /\ directory # <<>> /\ ~PathExists(files, directory)
    THEN Error(<<"D", "i", "r", "e", "c", "t", "o", "r", "y", " ", "n", "o", "t", " ", "f", "o", "u", "n", "d", ":", " ">> \o directory)
    ELSE analyse_files(files, find_test_files(files, IF directory = None THEN <<>> ELSE directory))

(***************************************************************************)
(* Test modules for the classifier: zero to two import statements, an      *)
(* optional class, one def with a choice of name, decorator and            *)
(* parameters in the class body (or at module level when there is no       *)
(* class), and an optional bare def test_x() after it.                     *)
(***************************************************************************)

\* def f(<names>)
Positional(names) ==
    Arguments(<<>>, [k \in 1..Len(names) |-> Arg(names[k], NoExpr)], NoArg, <<>>, NoArg, <<>>)

ImportChoices ==
    {<<>>,
     <<Import(0, <<Alias(<<"p", "y", "t", "e", "s", "t">>, None)>>, 1)>>,
     <<Import(0, <<Alias(<<"u", "n", "i", "t", "t", "e", "s", "t">>, None)>>, 1)>>,
     <<ImportFrom(0, <<"u", "n", "i", "t", "t", "e", "s", "t">>, <<Alias(<<"m", "o", "c", "k">>, None)>>, 0, 1)>>,
     <<ImportFrom(0, None, <<Alias(<<"h", "e", "l", "p", "e", "r", "s">>, None)>>, 1, 1)>>,
     <<Import(0, <<Alias(<<"p", "y", "t", "e", "s", "t">>, None)>>, 1), Import(0, <<Alias(<<"u", "n", "i", "t", "t", "e", "s", "t">>, None)>>, 2)>>}

NoClass == [name |-> <<>>, bases |-> <<>>]
ClassChoices ==
    {NoClass,
     [name |-> <<"T", "e", "s", "t", "K">>, bases |-> <<Attribute(Name(<<"u", "n", "i", "t", "t", "e", "s", "t">>), <<"T", "e", "s", "t", "C", "a", "s", "e">>)>>],
     [name |-> <<"K">>, bases |-> <<Name(<<"B", "a", "s", "e">>), Name(<<"A", "s", "y", "n", "c", "T", "e", "s", "t", "C", "a", "s", "e">>)>>],
     [name |-> <<"T", "e", "s", "t", "K">>, bases |-> <<>>],
     [name |-> <<"H", "e", "l", "p", "e", "r">>, bases |-> <<Name(<<"B", "a", "s", "e">>)>>]}

DecoratorChoices ==
    {<<>>,
     <<Attribute(Attribute(Name(<<"p", "y", "t", "e", "s", "t">>), <<"m", "a", "r", "k">>), <<"s", "k", "i", "p">>)>>,
     <<Call(Attribute(Name(<<"m", "o", "c", "k">>), <<"p", "a", "t", "c", "h">>), <<StrConstant(<<"a">>)>>, <<>>)>>,
     <<Attribute(Name(<<"p", "y", "t", "e", "s", "t">>), <<"f", "i", "x", "t", "u", "r", "e">>)>>,
     <<Call(Attribute(Name(<<"u", "n", "i", "t", "t", "e", "s", "t">>), <<"s", "k", "i", "p">>), <<StrConstant(<<"r">>)>>, <<>>)>>}

ParameterChoices ==
    {Positional(<<>>), Positional(<<<<"s", "e", "l", "f">>>>), Positional(<<<<"s", "e", "l", "f">>, <<"t", "m", "p", "_", "p", "a", "t", "h">>>>),
     Positional(<<<<"t", "m", "p", "_", "p", "a", "t", "h">>>>), Positional(<<<<"a">>, <<"b">>>>), Positional(<<<<"a">>>>)}

NameChoices == {<<"t", "e", "s", "t", "_", "x">>, <<"s", "e", "t", "U", "p">>}

TestModule(imports, class, name, decorators, parameters, bare) ==
    LET classes == IF class = NoClass THEN <<>>
                   ELSE <<ClassDef(0, class.name, class.bases, <<>>, PassStmt, 3)>>
        parent == IF class = NoClass THEN 0 ELSE Len(imports) + 1
    IN  Module(PassStmt,
               imports \o classes
               \o <<FunctionDef("FunctionDef", parent, name, parameters, decorators,
                                NoExpr, PassStmt, 5)>>
               \o (IF bare
                   THEN <<FunctionDef("FunctionDef", 0, <<"t", "e", "s", "t", "_", "x">>, Positional(<<>>), <<>>,
                                      NoExpr, PassStmt, 6)>>
                   ELSE <<>>))

TestModulePath == <<"t", "e", "s", "t", "s", "/", "t", "e", "s", "t", "_", "m", ".", "p", "y">>

\* a test module is written to tests/test_m.py
WriteTestModule ==
    \E imports \in ImportChoices, class \in ClassChoices, name \in NameChoices,
       decorators \in DecoratorChoices, parameters \in ParameterChoices, bare \in BOOLEAN :
        CreateFile(TestModulePath,
                   SourceFile(TestModule(imports, class, name, decorators, parameters, bare)))

\* analyze_test_files(directory)
AnalyzeTestFiles ==
    \E directory \in {None, <<"t", "e", "s", "t", "s">>, <<"n", "o", "d", "i", "r">>} :
        /\ call' = [op |-> "analyze_test_files", directory |-> directory]
        /\ result' = analyze_test_files(fs, directory)
        /\ UNCHANGED fs

SpecFramework == Init /\ [][WriteTestModule \/ AnalyzeTestFiles]_vars

(***************************************************************************)
(* C4                                                                      *)
(***************************************************************************)

\* analyze_test_files returned an analysis
Analysed ==
    call.op = "analyze_test_files" /\ ~IsError(result) /\ ~IsRaised(result)

\* the def statement that an entry of a result names by file and line
DefAt(file_path, line_number) ==
    CHOOSE i \in DOMAIN fs[file_path].module.nodes :
        /\ IsFunctionNode(fs[file_path].module.nodes[i])
        /\ fs[file_path].module.nodes[i].lineno = line_number

\* node i is held directly by a class with a TestCase/unittest token in a base
InUnittestClass(nodes, i) ==
    /\ nodes[i].parent # 0
    /\ IsClassNode(nodes[nodes[i].parent])
    /\ \E b \in DOMAIN nodes[nodes[i].parent].bases :
          \/ IsSubstr(<<"T", "e", "s", "t", "C", "a", "s", "e">>, unparse(nodes[nodes[i].parent].bases[b]))
          \/ IsSubstr(<<"u", "n", "i", "t", "t", "e", "s", "t">>, unparse(nodes[nodes[i].parent].bases[b]))

\* no import statement of the file mentions unittest
NoUnittestImport(nodes) ==
    \A i \in DOMAIN nodes :
        /\ nodes[i].type = "ImportFrom" => ~IsSubstr(<<"u", "n", "i", "t", "t", "e", "s", "t">>, Lower(nodes[i].module))
        /\ nodes[i].type \in {"Import", "ImportFrom"} =>
              \A k \in DOMAIN nodes[i].names :
                  ~IsSubstr(<<"u", "n", "i", "t", "t", "e", "s", "t">>, Lower(nodes[i].names[k].name))

\* node i is a module-level def test_...() without parameters and decorators
IsBareTest(nodes, i) ==
    /\ nodes[i].parent = 0
    /\ StartsWith(nodes[i].name, <<"t", "e", "s", "t", "_">>)
    /\ nodes[i].args = Positional(<<>>)
    /\ nodes[i].decorator_list = <<>>

\* C4: in every analysis that analyze_test_files returns, each entry of
\* test_functions is labelled 'pytest' or 'unittest'; the entry of a def held
\* directly by a class with a TestCase/unittest token in a base is labelled
\* 'unittest', whatever its decorators, its parameters and the imports are,
\* and every test_ method of such a class has an entry; the entry of a bare
\* module-level test function in a file without unittest imports is
\* labelled 'pytest'.
C4_FrameworkLabels ==
    Analysed =>
        /\ \A k \in DOMAIN result.test_functions :
              LET e == result.test_functions[k]
                  nodes == fs[e.file_path].module.nodes
                  i == DefAt(e.file_path, e.line_number)
              IN  /\ e.framework \in {"pytest", "unittest"}
                  /\ InUnittestClass(nodes, i) => e.framework = "unittest"
                  /\ (IsBareTest(nodes, i) /\ NoUnittestImport(nodes)) =>
                        e.framework = "pytest"
        /\ \A f \in DOMAIN result.test_files :
              LET file_path == result.test_files[f].file_path
                  nodes == fs[file_path].module.nodes
              IN  \A i \in DOMAIN nodes :
                      (/\ IsFunctionNode(nodes[i])
                       /\ StartsWith(nodes[i].name, <<"t", "e", "s", "t", "_">>)
                       /\ InUnittestClass(nodes, i)) =>
                          \E k \in DOMAIN result.test_functions :
                              /\ result.test_functions[k].file_path = file_path
                              /\ result.test_functions[k].line_number = nodes[i].lineno
                              /\ result.test_functions[k].framework = "unittest"

\* a method of a TestCase class that carries a pytest decorator and takes a
\* pytest fixture, in a file that imports pytest only, is labelled unittest
\* and the bare test function after it is labelled pytest
C4_Witness ==
    /\ Analysed
    /\ \E k, j \in DOMAIN result.test_functions :
          LET e == result.test_functions[k]
              b == result.test_functions[j]
              nodes == fs[e.file_path].module.nodes
          IN  /\ InUnittestClass(nodes, DefAt(e.file_path, e.line_number))
              /\ e.decorators = <<<<"p", "y", "t", "e", "s", "t", ".", "m", "a", "r", "k", ".", "s", "k", "i", "p">>>>
              /\ e.parameters # <<>>
              /\ e.parameters[1].name = <<"t", "m", "p", "_", "p", "a", "t", "h">>
              /\ e.framework = "unittest"
              /\ IsBareTest(nodes, DefAt(b.file_path, b.line_number))
              /\ NoUnittestImport(nodes)
              /\ \E i \in DOMAIN nodes : nodes[i].type = "Import"
              /\ b.framework = "pytest"

(***************************************************************************)
(* Fixture modules: `import pytest` and one def under one or two           *)
(* decorators, one of them a fixture decorator.                            *)
(***************************************************************************)

FixtureDecorators ==
    <<Attribute(Name(<<"p", "y", "t", "e", "s", "t">>), <<"f", "i", "x", "t", "u", "r", "e">>),
     Call(Attribute(Name(<<"p", "y", "t", "e", "s", "t">>), <<"f", "i", "x", "t", "u", "r", "e">>), <<>>,
          <<Keyword(<<"s", "c", "o", "p", "e">>, StrConstant(<<"s", "e", "s", "s", "i", "o", "n">>))>>),
     Call(Attribute(Name(<<"p", "y", "t", "e", "s", "t">>), <<"f", "i", "x", "t", "u", "r", "e">>), <<>>,
          <<Keyword(<<"s", "c", "o", "p", "e">>, StrConstant(<<"m", "o", "d", "u", "l", "e">>)), Keyword(<<"a", "u", "t", "o", "u", "s", "e">>, BoolConstant(TRUE))>>),
     Call(Attribute(Name(<<"p", "y", "t", "e", "s", "t">>), <<"f", "i", "x", "t", "u", "r", "e">>), <<>>,
          <<Keyword(<<"a", "u", "t", "o", "u", "s", "e">>, BoolConstant(TRUE))>>),
     Call(Attribute(Name(<<"p", "y", "t", "e", "s", "t">>), <<"f", "i", "x", "t", "u", "r", "e">>), <<>>,
          <<Keyword(<<"a", "u", "t", "o", "u", "s", "e">>, BoolConstant(FALSE)), Keyword(<<"s", "c", "o", "p", "e">>, StrConstant(<<"c", "l", "a", "s", "s">>))>>),
     Call(Name(<<"f", "i", "x", "t", "u", "r", "e">>), <<>>, <<Keyword(<<"s", "c", "o", "p", "e">>, StrConstant(<<"p", "a", "c", "k", "a", "g", "e">>))>>)>>

OtherDecorators ==
    <<Attribute(Attribute(Name(<<"p", "y", "t", "e", "s", "t">>), <<"m", "a", "r", "k">>), <<"s", "l", "o", "w">>),
     Call(Name(<<"c", "a", "c", "h", "e", "d">>), <<>>, <<Keyword(<<"s", "c", "o", "p", "e">>, StrConstant(<<"p", "r", "o", "c", "e", "s", "s">>))>>),
     Call(Name(<<"r", "e", "g", "i", "s", "t", "e", "r">>), <<>>, <<Keyword(<<"a", "u", "t", "o", "u", "s", "e">>, BoolConstant(TRUE))>>),
     Call(Attribute(Attribute(Name(<<"p", "y", "t", "e", "s", "t">>), <<"m", "a", "r", "k">>), <<"u", "s", "e", "f", "i", "x", "t", "u", "r", "e", "s">>),
          <<StrConstant(<<"d", "b">>)>>, <<>>)>>

\* the fixture decorator alone (other = 0), or before or after another
\* one; no fixture decorator (fixture = 0)
FixtureDecoratorList(fixture, other, fixture_first) ==
    IF fixture = 0 THEN (IF other = 0 THEN <<>> ELSE <<OtherDecorators[other]>>)
    ELSE IF other = 0 THEN <<FixtureDecorators[fixture]>>
    ELSE IF fixture_first THEN <<FixtureDecorators[fixture], OtherDecorators[other]>>
    ELSE <<OtherDecorators[other], FixtureDecorators[fixture]>>

FixtureModule(type, decorators) ==
    Module(PassStmt,
           <<Import(0, <<Alias(<<"p", "y", "t", "e", "s", "t">>, None)>>, 1),
             FunctionDef(type, 0, <<"d", "b">>, Positional(<<>>), decorators, NoExpr, PassStmt, 5)>>)

\* a module with a fixture is written to tests/test_m.py
WriteFixtureModule ==
    \E type \in {"FunctionDef", "AsyncFunctionDef"}, fixture \in 0..Len(FixtureDecorators),
       other \in 0..Len(OtherDecorators), fixture_first \in BOOLEAN :
        CreateFile(TestModulePath,
                   SourceFile(FixtureModule(type, FixtureDecoratorList(fixture, other,
                                                                       fixture_first))))

SpecFixture == Init /\ [][WriteFixtureModule \/ AnalyzeTestFiles]_vars

(***************************************************************************)
(* C5                                                                      *)
(***************************************************************************)

\* the expression is `fixture`, `<x>.fixture` or a call of one of them
IsFixtureDecorator(e) ==
    LET callee == IF e.node = "Call" THEN e.func ELSE e
    IN  \/ (callee.node = "Name" /\ callee.id = <<"f", "i", "x", "t", "u", "r", "e">>)
        \/ (callee.node = "Attribute" /\ callee.attr = <<"f", "i", "x", "t", "u", "r", "e">>)

\* the value of the keyword of that name in a decorator, NoExpr when the
\* decorator is no call or has no such keyword
KeywordValue(e, arg) ==
    IF e.node = "Call" /\ \E k \in DOMAIN e.keywords : e.keywords[k].arg = arg
    THEN e.keywords[CHOOSE k \in DOMAIN e.keywords : e.keywords[k].arg = arg].value
    ELSE NoExpr

\* C5: every entry of fixtures that analyze_test_files returns for a def
\* with one fixture decorator has the scope that the decorator's scope='...'
\* keyword gives ('function' without one) and has autouse True exactly when
\* the decorator carries autouse=True.
C5_FixtureOptions ==
    Analysed =>
        \A k \in DOMAIN result.fixtures :
            LET e == result.fixtures[k]
                node == fs[e.file_path].module.nodes[DefAt(e.file_path, e.line_number)]
                own == {d \in DOMAIN node.decorator_list :
                           IsFixtureDecorator(node.decorator_list[d])}
            IN  \A d \in own :
                    LET scope == KeywordValue(node.decorator_list[d], <<"s", "c", "o", "p", "e">>)
                        autouse == KeywordValue(node.decorator_list[d], <<"a", "u", "t", "o", "u", "s", "e">>)
                    IN  /\ e.scope = IF scope = NoExpr THEN <<"f", "u", "n", "c", "t", "i", "o", "n">> ELSE scope.value
                        /\ e.autouse = (autouse # NoExpr /\ autouse.value = TRUE)

(***************************************************************************)
(* find_untested_code                                                      *)
(***************************************************************************)

\* s.replace(old, new) for a non-empty old: left to right, not overlapping
RECURSIVE replace(_, _, _)
replace(s, old, new) ==
    IF Len(s) < Len(old) THEN s
    ELSE IF SubSeq(s, 1, Len(old)) = old
    THEN new \o replace(SubSeq(s, Len(old) + 1, Len(s)), old, new)
    ELSE <<Head(s)>> \o replace(Tail(s), old, new)

\* module_name = source_file.replace('/', '.').replace('.py', '')
module_name_of(source_file) == replace(replace(source_file, <<"/">>, <<".">>), <<".", "p", "y">>, <<>>)

\* 'test' in rel_path or rel_path.startswith('tests/')
is_test_path(rel_path) == IsSubstr(<<"t", "e", "s", "t">>, rel_path) \/ StartsWith(rel_path, <<"t", "e", "s", "t", "s", "/">>)

\* the files that the scan of the source directory keeps, as a set: rglob
\* yields them in the order of the file system
source_files_in(files, source_dir) ==
    {p \in rglob(files, IF source_dir = None THEN <<>> ELSE source_dir, Glob(<<>>, TRUE, <<".", "p", "y">>)) :
        files[p].kind = "file" /\ ~is_ignored_path(p) /\ ~is_test_path(p)}

\* the reference that one imports entry of a test file stands for
reference_of(import_info) ==
    IF import_info.type = "from_import"
    THEN import_info.module \o <<".">> \o import_info.name
    ELSE import_info.module

\* tested_references, a set
tested_references_of(test_analysis) ==
    UNION {{reference_of(test_analysis.test_files[f].imports[k]) :
               k \in DOMAIN test_analysis.test_files[f].imports} :
           f \in DOMAIN test_analysis.test_files}

untested_file(source_file, module_info) ==
    [file_path |-> source_file,
     functions |-> Len(module_info.functions),
     classes |-> Len(module_info.classes)]

untested_function(source_file, func) ==
    [name |-> func.name, file_path |-> source_file, line_number |-> func.line_number,
     docstring |-> func.docstring, parameters |-> func.parameters]

untested_class(source_file, cls) ==
    [name |-> cls.name, file_path |-> source_file, line_number |-> cls.line_number,
     docstring |-> cls.docstring, methods |-> Len(cls.methods),
     public_methods |-> Len(SelectSeq(cls.methods, LAMBDA m : ~StartsWith(m.name, <<"_">>)))]

\* a variant that lists private symbols too
is_untested_private_too(module_name, symbol, tested_references) ==
    (module_name \o <<".">> \o symbol.name) \notin tested_references

\* the symbol of a module is public and no tested reference names it
is_untested(module_name, symbol, tested_references) ==
    /\ (module_name \o <<".">> \o symbol.name) \notin tested_references
    /\ ~StartsWith(symbol.name, <<"_">>)

\* what the body of the loop over source_files adds for one source file
untested_in(source_file, module_name, module_info, tested_references) ==
    IF IsError(module_info)
    THEN [untested_files |-> <<>>, untested_functions |-> <<>>, untested_classes |-> <<>>]
    ELSE [untested_files |->
              IF \E ref \in tested_references : IsSubstr(module_name, ref) THEN <<>>
              ELSE <<untested_file(source_file, module_info)>>,
          untested_functions |->
              EntriesOf(SelectSeq(module_info.functions,
                                  LAMBDA func : is_untested(module_name, func, tested_references)),
                        LAMBDA func : untested_function(source_file, func)),
          untested_classes |->
              EntriesOf(SelectSeq(module_info.classes,
                                  LAMBDA cls : is_untested(module_name, cls, tested_references)),
                        LAMBDA cls : untested_class(source_file, cls))]

\* untested_items, from what parse_module_ast returns for each source file
untested_items_of(source_files, module_infos, test_analysis, tested_references) ==
    LET Report(parts) ==
            [untested_functions |-> Gather(parts, LAMBDA p : p.untested_functions),
             untested_classes |-> Gather(parts, LAMBDA p : p.untested_classes),
             untested_files |-> Gather(parts, LAMBDA p : p.untested_files),
             analysis_summary |->
                 [total_source_files |-> Len(source_files),
                  total_test_files |-> test_analysis.total_test_files,
                  tested_references |-> Cardinality(tested_references)]]
    IN  IF AnyRaised(module_infos) THEN FirstRaised(module_infos)
        ELSE Report([k \in 1..Len(source_files) |->
                        untested_in(source_files[k], module_name_of(source_files[k]),
                                    module_infos[k], tested_references)])

\* the part of find_untested_code after the test files are analysed
compare_with_tests(files, source_files, test_analysis) ==
    IF IsRaised(test_analysis) \/ IsError(test_analysis) THEN test_analysis
    ELSE untested_items_of(source_files,
                           [k \in 1..Len(source_files) |->
                               parse_module_ast(files, source_files[k])],
                           test_analysis, tested_references_of(test_analysis))

\* find_untested_code(source_dir, test_dir); source_files is the list of the
\* source files in the order in which the scan yields them
find_untested_code(files, source_dir, test_dir, source_files) ==
    IF source_dir # None /\ source_dir # <<>> /\ ~PathExists(files, source_dir)
    THEN Error(<<"S", "o", "u", "r", "c", "e", " ", "d", "i", "r", "e", "c", "t", "o", "r", "y", " ", "n", "o", "t", " ", "f", "o", "u", "n", "d", ":", " ">> \o source_dir)
    ELSE IF test_dir # None /\ test_dir # <<>> /\ ~PathExists(files, test_dir)
    THEN Error(<<"T", "e", "s", "t", " ", "d", "i", "r", "e", "c", "t", "o", "r", "y", " ", "n", "o", "t", " ", "f", "o", "u", "n", "d", ":", " ">> \o test_dir)
    ELSE compare_with_tests(files, source_files,
                            analyze_test_files(files, IF test_dir = None \/ test_dir = <<>>
                                                      THEN <<"t", "e", "s", "t", "s">> ELSE test_dir))

(***************************************************************************)
(* A project: up to MaxProjectFiles files out of a catalogue of source     *)
(* modules under pkg/ and test files under tests/.                         *)
(***************************************************************************)

MaxProjectFiles == 3

\* def foo(): pass / class Bar: pass / def _hidden(): pass
LibraryModule ==
    Module(PassStmt,
           <<FunctionDef("FunctionDef", 0, <<"f", "o", "o">>, Positional(<<>>), <<>>, NoExpr, PassStmt, 1),
             ClassDef(0, <<"B", "a", "r">>, <<>>, <<>>, PassStmt, 2),
             FunctionDef("FunctionDef", 0, <<"_", "h", "i", "d", "d", "e", "n">>, Positional(<<>>), <<>>, NoExpr, PassStmt, 3),
             ClassDef(0, <<"_", "I", "m", "p", "l">>, <<>>, <<>>, PassStmt, 4)>>)

\* from <module> import <name> / def test_it(): pass
ImportingTest(module, name) ==
    Module(PassStmt,
           <<ImportFrom(0, module, <<Alias(name, None)>>, 0, 1),
             FunctionDef("FunctionDef", 0, <<"t", "e", "s", "t", "_", "i", "t">>, Positional(<<>>), <<>>, NoExpr, PassStmt, 3)>>)

\* def test_p(p1=1, /): pass
PosOnlyDefaultTest ==
    Module(PassStmt,
           <<FunctionDef("FunctionDef", 0, <<"t", "e", "s", "t", "_", "p">>, PosOnlyDefaultSignature, <<>>, NoExpr,
                         PassStmt, 1)>>)

ProjectFile(path, file) == [path |-> path, file |-> file]

ProjectCatalogue ==
    <<ProjectFile(<<"p", "k", "g", "/", "m", "o", "d", ".", "p", "y">>, SourceFile(LibraryModule)),
      ProjectFile(<<"p", "k", "g", "/", "p", "y", "m", "o", "d", ".", "p", "y">>, SourceFile(LibraryModule)),
      ProjectFile(<<"p", "k", "g", "/", "c", "o", "n", "t", "e", "s", "t", ".", "p", "y">>, SourceFile(LibraryModule)),
      ProjectFile(<<"p", "k", "g", "/", "b", "a", "d", ".", "p", "y">>, BrokenFile("SyntaxError")),
      ProjectFile(<<"p", "k", "g", "/", "e", "m", "p", "t", "y", ".", "p", "y">>, SourceFile(EmptyModule)),
      ProjectFile(<<"t", "e", "s", "t", "s", "/", "t", "e", "s", "t", "_", "h", "i", "d", ".", "p", "y">>,
                  SourceFile(ImportingTest(<<"p", "k", "g", ".", "m", "o", "d">>,
                                           <<"_", "h", "i", "d", "d", "e", "n">>))),
      ProjectFile(<<"t", "e", "s", "t", "s", "/", "t", "e", "s", "t", "_", "m", "o", "d", ".", "p", "y">>, SourceFile(ImportingTest(<<"p", "k", "g", ".", "m", "o", "d">>, <<"f", "o", "o">>))),
      ProjectFile(<<"t", "e", "s", "t", "s", "/", "t", "e", "s", "t", "_", "b", "a", "r", ".", "p", "y">>, SourceFile(ImportingTest(<<"p", "k", "g", ".", "m", "o", "d">>, <<"B", "a", "r">>))),
      ProjectFile(<<"t", "e", "s", "t", "s", "/", "t", "e", "s", "t", "_", "p", "y", ".", "p", "y">>, SourceFile(ImportingTest(<<"p", "k", "g", ".", "p", "y", "m", "o", "d">>, <<"f", "o", "o">>))),
      ProjectFile(<<"t", "e", "s", "t", "s", "/", "t", "e", "s", "t", "_", "b", "a", "d", ".", "p", "y">>, BrokenFile("SyntaxError")),
      ProjectFile(<<"t", "e", "s", "t", "s", "/", "t", "e", "s", "t", "_", "e", "n", "c", ".", "p", "y">>, UndecodableFile),
      ProjectFile(<<"t", "e", "s", "t", "s", "/", "t", "e", "s", "t", "_", "a", "p", "i", "_", "t", "e", "s", "t", ".", "p", "y">>, SourceFile(ImportingTest(<<"p", "k", "g", ".", "c", "o", "n", "t", "e", "s", "t">>, <<"B", "a", "r">>))),
      ProjectFile(<<"t", "e", "s", "t", "s", "/", "t", "e", "s", "t", "_", "p", "o", ".", "p", "y">>, SourceFile(PosOnlyDefaultTest))>>

\* a file of the catalogue is written
WriteProjectFile ==
    /\ Cardinality(DOMAIN fs) < MaxProjectFiles
    /\ \E k \in DOMAIN ProjectCatalogue :
          CreateFile(ProjectCatalogue[k].path, ProjectCatalogue[k].file)

\* the orders in which a scan can yield the paths of a set
Orders(paths) ==
    {o \in [1..Cardinality(paths) -> paths] :
        \A i, j \in 1..Cardinality(paths) : o[i] = o[j] => i = j}

\* find_untested_code(source_dir, test_dir)
FindUntestedCode ==
    \E source_dir \in {None, <<"p", "k", "g">>, <<"n", "o", "s", "r", "c">>}, test_dir \in {None, <<"t", "e", "s", "t", "s">>} :
        \E source_files \in Orders(source_files_in(fs, source_dir)) :
            /\ call' = [op |-> "find_untested_code", source_dir |-> source_dir,
                        test_dir |-> test_dir]
            /\ result' = find_untested_code(fs, source_dir, test_dir, source_files)
            /\ UNCHANGED fs

SpecProject == Init /\ [][WriteProjectFile \/ AnalyzeTestFiles \/ FindUntestedCode]_vars

(***************************************************************************)
(* C6                                                                      *)
(***************************************************************************)

\* the directory that a call analyses, as a path (<<>>: the project root)
DirectoryOf(directory) == IF directory = None THEN <<>> ELSE directory

\* the test files below a directory: files with a test file's name outside
\* the ignored directories
TestFilesBelow(directory) ==
    {p \in DOMAIN fs :
        /\ fs[p].kind = "file"
        /\ IsBelow(p, directory)
        /\ \E k \in DOMAIN test_patterns : fnmatch(PathName(p), test_patterns[k])
        /\ ~is_ignored_path(p)}

\* the file is read and parsed without an error
Parses(p) == fs[p].readable /\ fs[p].decodable /\ fs[p].parse = "ok"

\* the lists of an analysis whose entries name their file
ListsOfAnalysis(analysis) ==
    <<analysis.test_classes, analysis.test_functions, analysis.fixtures, analysis.markers,
      analysis.unittest_classes, analysis.pytest_fixtures, analysis.setup_teardown_methods,
      analysis.assertion_patterns, analysis.mock_usage>>

\* C6: analyze_test_files over a directory that holds test files that do
\* not parse and test files that do neither raises nor returns an error;
\* the files of its result are exactly the ones that parse, every entry of
\* its lists is from one of them, and its count of test files counts them
\* alone.
C6_UnparseableFilesContributeNothing ==
    (/\ call.op = "analyze_test_files"
     /\ PathExists(fs, DirectoryOf(call.directory))
     /\ \E p \in TestFilesBelow(DirectoryOf(call.directory)) : Parses(p)
     /\ \E p \in TestFilesBelow(DirectoryOf(call.directory)) : ~Parses(p)) =>
        /\ ~IsRaised(result)
        /\ ~IsError(result)
        /\ {result.test_files[k].file_path : k \in DOMAIN result.test_files}
              = {p \in TestFilesBelow(DirectoryOf(call.directory)) : Parses(p)}
        /\ \A l \in DOMAIN ListsOfAnalysis(result) :
              \A k \in DOMAIN ListsOfAnalysis(result)[l] :
                  Parses(ListsOfAnalysis(result)[l][k].file_path)
        /\ result.total_test_files = Len(result.test_files)

(***************************************************************************)
(* C7                                                                      *)
(***************************************************************************)

\* the dotted module path of a source file: pkg/mod.py is pkg.mod
DottedPath(p) ==
    [i \in 1..(Len(p) - 3) |-> IF p[i] = "/" THEN "." ELSE p[i]]

\* some test file below the directory holds `from <module> import <name>`
ImportedByTest(directory, module, name) ==
    \E t \in TestFilesBelow(directory) :
        /\ Parses(t)
        /\ \E i \in DOMAIN fs[t].module.nodes :
              /\ fs[t].module.nodes[i].type = "ImportFrom"
              /\ fs[t].module.nodes[i].level = 0
              /\ fs[t].module.nodes[i].module = module
              /\ \E a \in DOMAIN fs[t].module.nodes[i].names :
                     fs[t].module.nodes[i].names[a].name = name

\* the list of the result has an entry for the symbol of that file
ListedIn(list, p, name) ==
    \E k \in DOMAIN list : list[k].file_path = p /\ list[k].name = name

\* C7: when find_untested_code returns its report, a public top-level
\* function (class) of a source module below the source directory is absent
\* from untested_functions (untested_classes) if a test file of the test
\* directory holds `from <dotted path of the module> import <its name>`,
\* and is listed there if no test file does.
C7_ListedUnlessImported ==
    (call.op = "find_untested_code" /\ ~IsError(result) /\ ~IsRaised(result)) =>
        LET test_directory == IF call.test_dir = None THEN <<"t", "e", "s", "t", "s">> ELSE call.test_dir
        IN  \A p \in DOMAIN fs :
                (/\ fs[p].kind = "file"
                 /\ Parses(p)
                 /\ EndsWith(p, <<".", "p", "y">>)
                 /\ IsBelow(p, DirectoryOf(call.source_dir))
                 /\ ~IsBelow(p, test_directory)
                 /\ ~is_ignored_path(p)) =>
                    \A i \in DOMAIN fs[p].module.nodes :
                        LET node == fs[p].module.nodes[i]
                            list == IF IsClassNode(node) THEN result.untested_classes
                                    ELSE result.untested_functions
                        IN  (/\ IsFunctionNode(node) \/ IsClassNode(node)
                             /\ node.parent = 0
                             /\ ~StartsWith(node.name, <<"_">>)) =>
                                (ListedIn(list, p, node.name)
                                 <=> ~ImportedByTest(test_directory, DottedPath(p), node.name))

(***************************************************************************)
(* suggest_test_cases                                                      *)
(***************************************************************************)

\* the truth value of an Optional[str]: None and '' are false
Truthy(s) == s # None /\ s # <<>>

\* _get_suggested_assertions(func_info, framework)
get_suggested_assertions(func_info, framework) ==
    IF framework = <<"p", "y", "t", "e", "s", "t">>
    THEN <<<<"a", "s", "s", "e", "r", "t">>, <<"a", "s", "s", "e", "r", "t", " ", "=", "=">>, <<"a", "s", "s", "e", "r", "t", " ", "!", "=">>, <<"a", "s", "s", "e", "r", "t", " ", "i", "s">>, <<"a", "s", "s", "e", "r", "t", " ", "i", "s", " ", "n", "o", "t">>>>
    ELSE <<<<"a", "s", "s", "e", "r", "t", "E", "q", "u", "a", "l">>, <<"a", "s", "s", "e", "r", "t", "N", "o", "t", "E", "q", "u", "a", "l">>, <<"a", "s", "s", "e", "r", "t", "T", "r", "u", "e">>, <<"a", "s", "s", "e", "r", "t", "F", "a", "l", "s", "e">>, <<"a", "s", "s", "e", "r", "t", "I", "s">>,
           <<"a", "s", "s", "e", "r", "t", "I", "s", "N", "o", "t">>>>

\* one entry of test_suggestions
test_case(test_name, description, test_type, priority, framework, suggested_assertions) ==
    [test_name |-> test_name, description |-> description, test_type |-> test_type,
     priority |-> priority, framework |-> framework,
     suggested_assertions |-> suggested_assertions]

\* the edge-case test of a typed parameter
edge_case(func_info, param, what, value, framework) ==
    test_case(<<"t", "e", "s", "t", "_">> \o func_info.name \o <<"_", "w", "i", "t", "h", "_">> \o what \o <<"_">> \o param.name,
              <<"T", "e", "s", "t", " ">> \o func_info.name \o <<" ", "w", "i", "t", "h", " ">> \o value \o <<" ", "f", "o", "r", " ">> \o param.name,
              "edge_case", "medium", framework,
              get_suggested_assertions(func_info, framework))

\* the test cases that one parameter adds
parameter_tests(func_info, param, framework) ==
    IF param.kind # "positional" THEN <<>>
    ELSE <<test_case(<<"t", "e", "s", "t", "_">> \o func_info.name \o <<"_", "w", "i", "t", "h", "_", "n", "o", "n", "e", "_">> \o param.name,
                     <<"T", "e", "s", "t", " ">> \o func_info.name \o <<" ", "w", "i", "t", "h", " ", "N", "o", "n", "e", " ", "v", "a", "l", "u", "e", " ", "f", "o", "r", " ">> \o param.name,
                     "negative", "medium", framework,
                     <<IF framework = <<"p", "y", "t", "e", "s", "t">> THEN <<"r", "a", "i", "s", "e", "s", " ", "e", "x", "c", "e", "p", "t", "i", "o", "n">> ELSE <<"a", "s", "s", "e", "r", "t", "R", "a", "i", "s", "e", "s">>>>)>>
         \o (IF ~Truthy(param.type) THEN <<>>
             ELSE IF IsSubstr(<<"s", "t", "r">>, param.type)
             THEN <<edge_case(func_info, param, <<"e", "m", "p", "t", "y", "_", "s", "t", "r", "i", "n", "g">>, <<"e", "m", "p", "t", "y", " ", "s", "t", "r", "i", "n", "g">>, framework)>>
             ELSE IF IsSubstr(<<"i", "n", "t">>, param.type)
             THEN <<edge_case(func_info, param, <<"z", "e", "r", "o">>, <<"z", "e", "r", "o", " ", "v", "a", "l", "u", "e">>, framework),
                    edge_case(func_info, param, <<"n", "e", "g", "a", "t", "i", "v", "e">>, <<"n", "e", "g", "a", "t", "i", "v", "e", " ", "v", "a", "l", "u", "e">>, framework)>>
             ELSE IF IsSubstr(<<"l", "i", "s", "t">>, param.type)
             THEN <<edge_case(func_info, param, <<"e", "m", "p", "t", "y", "_", "l", "i", "s", "t">>, <<"e", "m", "p", "t", "y", " ", "l", "i", "s", "t">>, framework)>>
             ELSE IF IsSubstr(<<"d", "i", "c", "t">>, param.type)
             THEN <<edge_case(func_info, param, <<"e", "m", "p", "t", "y", "_", "d", "i", "c", "t">>, <<"e", "m", "p", "t", "y", " ", "d", "i", "c", "t">>, framework)>>
             ELSE <<>>)

\* a variant of docstring.lower() that keeps the case
docstring_as_written(docstring) == docstring

\* docstring = func_info['docstring'].lower()
docstring_lower(docstring) == Lower(docstring)

\* the test cases that the docstring adds, given the lowered docstring
docstring_tests(func_info, docstring, framework) ==
    (IF IsSubstr(<<"r", "a", "i", "s", "e">>, docstring) \/ IsSubstr(<<"e", "x", "c", "e", "p", "t", "i", "o", "n">>, docstring)
     THEN <<test_case(<<"t", "e", "s", "t", "_">> \o func_info.name \o <<"_", "r", "a", "i", "s", "e", "s", "_", "e", "x", "c", "e", "p", "t", "i", "o", "n">>,
                      <<"T", "e", "s", "t", " ", "t", "h", "a", "t", " ">> \o func_info.name \o <<" ", "r", "a", "i", "s", "e", "s", " ", "a", "p", "p", "r", "o", "p", "r", "i", "a", "t", "e", " ", "e", "x", "c", "e", "p", "t", "i", "o", "n", "s">>,
                      "exception", "high", framework,
                      <<IF framework = <<"p", "y", "t", "e", "s", "t">> THEN <<"p", "y", "t", "e", "s", "t", ".", "r", "a", "i", "s", "e", "s">> ELSE <<"a", "s", "s", "e", "r", "t", "R", "a", "i", "s", "e", "s">>>>)>>
     ELSE <<>>)
    \o (IF IsSubstr(<<"a", "s", "y", "n", "c">>, docstring) \/ func_info.type = "async_function"
        THEN <<test_case(<<"t", "e", "s", "t", "_">> \o func_info.name \o <<"_", "a", "s", "y", "n", "c">>,
                         <<"T", "e", "s", "t", " ", "a", "s", "y", "n", "c", " ", "b", "e", "h", "a", "v", "i", "o", "r", " ", "o", "f", " ">> \o func_info.name,
                         "async", "high", framework,
                         <<IF framework = <<"p", "y", "t", "e", "s", "t">> THEN <<"a", "w", "a", "i", "t">> ELSE <<"a", "s", "y", "n", "c", "i", "o", ".", "r", "u", "n">>>>)>>
        ELSE <<>>)

\* generate_function_tests(func_info, framework)
generate_function_tests(func_info, framework) ==
    <<test_case(<<"t", "e", "s", "t", "_">> \o func_info.name \o <<"_", "b", "a", "s", "i", "c">>,
                <<"T", "e", "s", "t", " ", "b", "a", "s", "i", "c", " ", "f", "u", "n", "c", "t", "i", "o", "n", "a", "l", "i", "t", "y", " ", "o", "f", " ">> \o func_info.name,
                "positive", "high", framework,
                get_suggested_assertions(func_info, framework))>>
    \o Flatten([k \in 1..Len(func_info.parameters) |->
                   parameter_tests(func_info, func_info.parameters[k], framework)])
    \o (IF Truthy(func_info.return_type)
        THEN <<test_case(<<"t", "e", "s", "t", "_">> \o func_info.name \o <<"_", "r", "e", "t", "u", "r", "n", "_", "t", "y", "p", "e">>,
                         <<"T", "e", "s", "t", " ", "t", "h", "a", "t", " ">> \o func_info.name \o <<" ", "r", "e", "t", "u", "r", "n", "s", " ", "c", "o", "r", "r", "e", "c", "t", " ", "t", "y", "p", "e", ":", " ">>
                             \o func_info.return_type,
                         "type_check", "low", framework,
                         <<IF framework = <<"p", "y", "t", "e", "s", "t">> THEN <<"a", "s", "s", "e", "r", "t", " ", "i", "s", "i", "n", "s", "t", "a", "n", "c", "e">>
                           ELSE <<"a", "s", "s", "e", "r", "t", "I", "s", "I", "n", "s", "t", "a", "n", "c", "e">>>>)>>
        ELSE <<>>)
    \o (IF Truthy(func_info.docstring)
        THEN docstring_tests(func_info, docstring_lower(func_info.docstring), framework)
        ELSE <<>>)

\* test_class_suggestion
test_class_suggestion(cls, framework) ==
    LET suggestion ==
            test_case(<<"t", "e", "s", "t", "_">> \o cls.name \o <<"_", "i", "n", "s", "t", "a", "n", "t", "i", "a", "t", "i", "o", "n">>,
                      <<"T", "e", "s", "t", " ", "t", "h", "a", "t", " ">> \o cls.name \o <<" ", "c", "a", "n", " ", "b", "e", " ", "i", "n", "s", "t", "a", "n", "t", "i", "a", "t", "e", "d">>,
                      "instantiation", "high", framework,
                      get_suggested_assertions(cls, framework))
    IN  IF framework = <<"u", "n", "i", "t", "t", "e", "s", "t">>
        THEN SetKey(SetKey(SetKey(suggestion, "test_class_name", <<"T", "e", "s", "t">> \o cls.name),
                           "inherits_from", <<"u", "n", "i", "t", "t", "e", "s", "t", ".", "T", "e", "s", "t", "C", "a", "s", "e">>),
                    "setup_methods", <<<<"s", "e", "t", "U", "p">>, <<"t", "e", "a", "r", "D", "o", "w", "n">>>>)
        ELSE suggestion

\* the suggestions for a class and for its methods
class_tests(cls, framework) ==
    <<test_class_suggestion(cls, framework)>>
    \o Flatten(EntriesOf(SelectSeq(cls.methods,
                                   LAMBDA method : \/ ~StartsWith(method.name, <<"_">>)
                                                   \/ method.name = <<"_", "_", "i", "n", "i", "t", "_", "_">>),
                         LAMBDA method : generate_function_tests(method, framework)))

\* the first entry of a list with that name, <<>> when there is none
FirstNamed(list, name) ==
    LET at == {k \in DOMAIN list : list[k].name = name}
    IN  IF at = {} THEN <<>> ELSE <<list[CHOOSE k \in at : \A j \in at : k <= j]>>

\* patterns['testing_frameworks'] of get_test_patterns(), from the analysis
testing_frameworks_of(analysis) ==
    LET framework_of(module) ==
            IF module \in {<<"p", "y", "t", "e", "s", "t">>, <<"u", "n", "i", "t", "t", "e", "s", "t">>, <<"n", "o", "s", "e">>, <<"n", "o", "s", "e", "2">>} THEN {module}
            ELSE IF StartsWith(module, <<"p", "y", "t", "e", "s", "t">>) THEN {<<"p", "y", "t", "e", "s", "t">>}
            ELSE IF StartsWith(module, <<"u", "n", "i", "t", "t", "e", "s", "t">>) THEN {<<"u", "n", "i", "t", "t", "e", "s", "t">>}
            ELSE {}
    IN  IF IsError(analysis) THEN {}
        ELSE UNION {framework_of(GetOrEmpty(analysis.imports[k], "module")) :
                       k \in DOMAIN analysis.imports}

\* a variant that looks for unittest first
detected_framework_unittest_first(frameworks) ==
    IF <<"u", "n", "i", "t", "t", "e", "s", "t">> \in frameworks
    THEN <<"u", "n", "i", "t", "t", "e", "s", "t">>
    ELSE <<"p", "y", "t", "e", "s", "t">>

\* the framework when none is given: pytest before unittest, pytest by default
detected_framework(frameworks) ==
    IF <<"p", "y", "t", "e", "s", "t">> \in frameworks THEN <<"p", "y", "t", "e", "s", "t">>
    ELSE IF <<"u", "n", "i", "t", "t", "e", "s", "t">> \in frameworks THEN <<"u", "n", "i", "t", "t", "e", "s", "t">>
    ELSE <<"p", "y", "t", "e", "s", "t">>

\* test_suggestions, or the error of a name that is not in the module
test_suggestions_of(module_info, file_path, function_name, class_name, framework) ==
    IF Truthy(function_name)
    THEN IF FirstNamed(module_info.functions, function_name) = <<>>
         THEN Error(<<"F", "u", "n", "c", "t", "i", "o", "n", " ", "\"">> \o function_name \o <<"\"", " ", "n", "o", "t", " ", "f", "o", "u", "n", "d", " ", "i", "n", " ">> \o file_path)
         ELSE [test_suggestions |->
                  generate_function_tests(FirstNamed(module_info.functions, function_name)[1],
                                          framework)]
    ELSE IF Truthy(class_name)
    THEN IF FirstNamed(module_info.classes, class_name) = <<>>
         THEN Error(<<"C", "l", "a", "s", "s", " ", "\"">> \o class_name \o <<"\"", " ", "n", "o", "t", " ", "f", "o", "u", "n", "d", " ", "i", "n", " ">> \o file_path)
         ELSE [test_suggestions |->
                  class_tests(FirstNamed(module_info.classes, class_name)[1], framework)]
    ELSE [test_suggestions |->
             Flatten(EntriesOf(SelectSeq(module_info.functions,
                                         LAMBDA func : ~StartsWith(func.name, <<"_">>)),
                               LAMBDA func : generate_function_tests(func, framework)))
             \o Flatten(EntriesOf(SelectSeq(module_info.classes,
                                            LAMBDA cls : ~StartsWith(cls.name, <<"_">>)),
                                  LAMBDA cls : class_tests(cls, framework)))]

\* the part of suggest_test_cases after the framework is known
suggestions_for(file_path, framework, outcome) ==
    IF IsError(outcome) THEN outcome
    ELSE [file_path |-> file_path, framework |-> framework,
          recommended_framework |-> framework,
          test_suggestions |-> outcome.test_suggestions]

\* the part of suggest_test_cases after the module has parsed; analysis is
\* what analyze_test_files() returns when no framework is given
suggest_with(module_info, analysis, file_path, function_name, class_name, framework) ==
    IF framework = None /\ IsRaised(analysis) THEN analysis
    ELSE LET Suggest(resolved) ==
                 suggestions_for(file_path, resolved,
                                 test_suggestions_of(module_info, file_path, function_name,
                                                     class_name, resolved))
         IN  Suggest(IF framework = None
                     THEN detected_framework(testing_frameworks_of(analysis))
                     ELSE framework)

\* suggest_test_cases(file_path, function_name, class_name, framework)
suggest_test_cases(files, file_path, function_name, class_name, framework) ==
    LET Continue(module_info) ==
            IF IsRaised(module_info) \/ IsError(module_info) THEN module_info
            ELSE suggest_with(module_info, analyze_test_files(files, None), file_path,
                              function_name, class_name, framework)
    IN  Continue(parse_module_ast(files, file_path))

(***************************************************************************)
(* The suggestion specification: a module m.py with one function, at       *)
(* module level or as a method of class K, whose name, kind, parameters,   *)
(* return annotation and first statement vary; optionally a test file that *)
(* imports a testing framework; suggest_test_cases is called in its three  *)
(* modes, with and without a framework.                                    *)
(***************************************************************************)

\* the first statement of the function: no docstring, docstrings with and
\* without the tokens in several cases, and first statements that are not
\* docstrings
FirstStatements ==
    <<PassStmt,
      ExprStmt(StrConstant(<<>>)),
      ExprStmt(StrConstant(<<"A", "d", "d", "s", " ", "t", "w", "o", " ", "n", "u", "m", "b", "e", "r", "s", ".">>)),
      ExprStmt(StrConstant(<<"R", "a", "i", "s", "e", "s", " ", "V", "a", "l", "u", "e", "E", "r", "r", "o", "r", ".">>)),
      ExprStmt(StrConstant(<<"M", "a", "y", " ", "t", "h", "r", "o", "w", " ", "a", "n", " ", "E", "X", "C", "E", "P", "T", "I", "O", "N", ".">>)),
      ExprStmt(StrConstant(<<"r", "a", "i", "s", "e", " ", "a", "n", " ", "e", "x", "c", "e", "p", "t", "i", "o", "n", ",", " ", "a", "s", "y", "n", "c">>)),
      ExprStmt(IntConstant(1)),
      ExprStmt(Name(<<"r", "a", "i", "s", "e", "_", "e", "x", "c", "e", "p", "t", "i", "o", "n">>))>>

SuggestArguments ==
    <<Positional(<<>>),
      Arguments(<<>>, <<Arg(<<"s">>, Name(<<"s", "t", "r">>)), Arg(<<"n">>, Name(<<"i", "n", "t">>))>>, NoArg, <<>>,
                NoArg, <<>>),
      Arguments(<<>>, <<Arg(<<"x", "s">>, NoExpr)>>, NoArg, <<Arg(<<"k", "e", "y">>, Name(<<"d", "i", "c", "t">>))>>,
                NoArg, <<>>)>>

\* the return annotation that goes with each entry of SuggestArguments
SuggestReturns == <<NoExpr, Name(<<"i", "n", "t">>), NoExpr>>

SuggestNames == {<<"f">>, <<"_", "g">>}

SuggestModule(type, name, in_class, args, returns, first_stmt) ==
    IF in_class
    THEN Module(PassStmt,
                <<ClassDef(0, <<"K">>, <<>>, <<>>, PassStmt, 1),
                  FunctionDef(type, 1, name, args, <<>>, returns, first_stmt, 2)>>)
    ELSE Module(PassStmt,
                <<FunctionDef(type, 0, name, args, <<>>, returns, first_stmt, 1)>>)

\* the module is written to m.py
WriteSuggestModule ==
    \E type \in {"FunctionDef", "AsyncFunctionDef"}, name \in SuggestNames,
       in_class \in BOOLEAN, args \in DOMAIN SuggestArguments,
       first_stmt \in DOMAIN FirstStatements :
        CreateFile(ModulePath,
                   SourceFile(SuggestModule(type, name, in_class, SuggestArguments[args],
                                            SuggestReturns[args],
                                            FirstStatements[first_stmt])))

FrameworkTestPath == <<"t", "e", "s", "t", "s", "/", "t", "e", "s", "t", "_", "u", ".", "p", "y">>

\* a test file that imports a testing framework is written
WriteFrameworkTest ==
    \E module \in {<<"p", "y", "t", "e", "s", "t">>, <<"u", "n", "i", "t", "t", "e", "s", "t">>, <<"u", "n", "i", "t", "t", "e", "s", "t", ".", "m", "o", "c", "k">>} :
        CreateFile(FrameworkTestPath,
                   SourceFile(Module(PassStmt, <<Import(0, <<Alias(module, None)>>, 1)>>)))

SuggestTestCases ==
    \E function_name \in {None, <<"n", "o", "p", "e">>} \cup SuggestNames,
       class_name \in {None, <<"K">>, <<"N", "o", "p", "e">>},
       framework \in {None, <<"u", "n", "i", "t", "t", "e", "s", "t">>} :
        /\ ModulePath \in DOMAIN fs
        /\ call' = [op |-> "suggest_test_cases", file_path |-> ModulePath,
                    function_name |-> function_name, class_name |-> class_name,
                    framework |-> framework]
        /\ result' = suggest_test_cases(fs, ModulePath, function_name, class_name, framework)
        /\ UNCHANGED fs

SpecSuggest == Init /\ [][WriteSuggestModule \/ WriteFrameworkTest \/ SuggestTestCases]_vars

(***************************************************************************)
(* C8                                                                      *)
(***************************************************************************)

\* the text contains the token when letter case is ignored
ContainsIgnoringCase(token, text) ==
    \E k \in 0..(Len(text) - Len(token)) :
        \A j \in 1..Len(token) : LowerChar(text[k + j]) = token[j]

HasDocstring(node) ==
    /\ node.first_stmt.stmt = "Expr"
    /\ node.first_stmt.value.node = "Constant"
    /\ node.first_stmt.value.kind = "str"

\* the docstring of the def is present and contains "raise" or "exception"
MentionsException(node) ==
    /\ HasDocstring(node)
    /\ \/ ContainsIgnoringCase(<<"r", "a", "i", "s", "e">>, node.first_stmt.value.value)
       \/ ContainsIgnoringCase(<<"e", "x", "c", "e", "p", "t", "i", "o", "n">>, node.first_stmt.value.value)

Suggested == call.op = "suggest_test_cases" /\ "test_suggestions" \in DOMAIN result

\* the suggestions generated for the function of that name
SuggestionsFor(name) ==
    {k \in DOMAIN result.test_suggestions :
        StartsWith(result.test_suggestions[k].test_name, <<"t", "e", "s", "t", "_">> \o name \o <<"_">>)}

ExceptionSuggestionsFor(name) ==
    {k \in SuggestionsFor(name) : result.test_suggestions[k].test_type = "exception"}

\* C8: the suggestions that suggest_test_cases generates for a function
\* contain exactly one suggestion of test_type 'exception' when the
\* function's docstring contains "raise" or "exception" in any letter case,
\* and none when the docstring is absent or contains neither token.
C8_OneExceptionSuggestionIffDocstringToken ==
    Suggested =>
        \A i \in DOMAIN fs[ModulePath].module.nodes :
            LET node == fs[ModulePath].module.nodes[i]
            IN  (IsFunctionNode(node) /\ SuggestionsFor(node.name) # {}) =>
                    Cardinality(ExceptionSuggestionsFor(node.name))
                        = IF MentionsException(node) THEN 1 ELSE 0

\* suggestions for a function whose docstring has the token in upper case
\* only, with the one 'exception' suggestion among them
C8_Witness ==
    /\ Suggested
    /\ \E i \in DOMAIN fs[ModulePath].module.nodes :
          LET node == fs[ModulePath].module.nodes[i]
          IN  /\ IsFunctionNode(node)
              /\ MentionsException(node)
              /\ ~IsSubstr(<<"r", "a", "i", "s", "e">>, node.first_stmt.value.value)
              /\ ~IsSubstr(<<"e", "x", "c", "e", "p", "t", "i", "o", "n">>, node.first_stmt.value.value)
              /\ Cardinality(ExceptionSuggestionsFor(node.name)) = 1
              /\ Cardinality(SuggestionsFor(node.name)) > 1

(***************************************************************************)
(* C11                                                                     *)
(***************************************************************************)

\* the lists of a result of analyze_test_files or find_untested_code whose
\* entries name a file
FileListsOf(value) ==
    IF "untested_files" \in DOMAIN value
    THEN <<value.untested_files, value.untested_functions, value.untested_classes>>
    ELSE <<value.test_files>> \o ListsOfAnalysis(value)

\* some entry of the result names the file
NamesFile(value, p) ==
    \E l \in DOMAIN FileListsOf(value) :
        \E k \in DOMAIN FileListsOf(value)[l] : FileListsOf(value)[l][k].file_path = p

\* the files that a multi-file operation discovers and that do not parse
UnparsedFilesOf(operation) ==
    IF operation.op = "analyze_test_files"
    THEN {p \in TestFilesBelow(DirectoryOf(operation.directory)) : ~Parses(p)}
    ELSE {p \in DOMAIN fs : /\ fs[p].kind = "file"
                            /\ EndsWith(p, <<".", "p", "y">>)
                            /\ IsBelow(p, DirectoryOf(operation.source_dir))
                            /\ ~is_ignored_path(p)
                            /\ ~Parses(p)}

\* C11: when analyze_test_files or find_untested_code returns its result,
\* the result holds, for every discovered file that fails to parse, a value
\* that identifies that file.
C11_ParseFailuresAreReported ==
    (/\ call.op \in {"analyze_test_files", "find_untested_code"}
     /\ ~IsError(result)
     /\ ~IsRaised(result)) =>
        \A p \in UnparsedFilesOf(call) : NamesFile(result, p)

(***************************************************************************)
(* The resolution specification: m.py is an empty module, a module whose   *)
(* function has a defaulted positional-only parameter, or a module with a  *)
(* function and a class; up to two test files import testing frameworks    *)
(* and declare test functions; suggest_test_cases is called as before.     *)
(***************************************************************************)

ResolveModules ==
    <<EmptyModule,
      Module(PassStmt,
             <<FunctionDef("FunctionDef", 0, <<"f">>, PosOnlyDefaultSignature, <<>>, NoExpr,
                           PassStmt, 1)>>),
      Module(PassStmt,
             <<FunctionDef("FunctionDef", 0, <<"f">>, NoParameters, <<>>, NoExpr, PassStmt, 1),
               ClassDef(0, <<"K">>, <<>>, <<>>, PassStmt, 2),
               FunctionDef("FunctionDef", 2, <<"r", "u", "n">>, SelfSignature, <<>>, NoExpr,
                           PassStmt, 3)>>)>>

WriteResolveModule ==
    \E k \in DOMAIN ResolveModules : CreateFile(ModulePath, SourceFile(ResolveModules[k]))

\* import pytest / import unittest / from unittest import mock / import nose /
\* a unittest.TestCase class with two test methods / a bare test function /
\* a test function with a defaulted positional-only parameter
TallyTests ==
    <<Module(PassStmt, <<Import(0, <<Alias(<<"p", "y", "t", "e", "s", "t">>, None)>>, 1)>>),
      Module(PassStmt, <<Import(0, <<Alias(<<"u", "n", "i", "t", "t", "e", "s", "t">>, None)>>, 1)>>),
      Module(PassStmt, <<ImportFrom(0, <<"u", "n", "i", "t", "t", "e", "s", "t">>, <<Alias(<<"m", "o", "c", "k">>, None)>>, 0, 1)>>),
      Module(PassStmt, <<Import(0, <<Alias(<<"n", "o", "s", "e">>, None)>>, 1)>>),
      Module(PassStmt,
             <<Import(0, <<Alias(<<"u", "n", "i", "t", "t", "e", "s", "t">>, None)>>, 1),
               ClassDef(0, <<"T", "e", "s", "t", "A">>, <<Attribute(Name(<<"u", "n", "i", "t", "t", "e", "s", "t">>), <<"T", "e", "s", "t", "C", "a", "s", "e">>)>>, <<>>,
                        PassStmt, 2),
               FunctionDef("FunctionDef", 2, <<"t", "e", "s", "t", "_", "a">>, SelfSignature, <<>>, NoExpr,
                           PassStmt, 3),
               FunctionDef("FunctionDef", 2, <<"t", "e", "s", "t", "_", "b">>, SelfSignature, <<>>, NoExpr,
                           PassStmt, 4)>>),
      Module(PassStmt,
             <<FunctionDef("FunctionDef", 0, <<"t", "e", "s", "t", "_", "x">>, NoParameters, <<>>, NoExpr,
                           PassStmt, 1)>>),
      PosOnlyDefaultTest>>

TallyTestPaths == {FrameworkTestPath, <<"t", "e", "s", "t", "s", "/", "t", "e", "s", "t", "_", "v", ".", "p", "y">>}

WriteTallyTest ==
    \E path \in TallyTestPaths, k \in DOMAIN TallyTests :
        CreateFile(path, SourceFile(TallyTests[k]))

SpecResolve == Init /\ [][WriteResolveModule \/ WriteTallyTest \/ SuggestTestCases]_vars

(***************************************************************************)
(* C12                                                                     *)
(***************************************************************************)

\* the module declares a function (a class) of that name
DeclaresFunction(module, name) ==
    \E i \in DOMAIN module.nodes :
        IsFunctionNode(module.nodes[i]) /\ module.nodes[i].parent = 0
                                        /\ module.nodes[i].name = name

DeclaresClass(module, name) ==
    \E i \in DOMAIN module.nodes :
        IsClassNode(module.nodes[i]) /\ module.nodes[i].name = name

IsNotFound(value) == IsError(value) /\ IsSubstr(<<"n", "o", "t", " ", "f", "o", "u", "n", "d", " ", "i", "n">>, value.error)

\* C12: suggest_test_cases on a module that parses returns a not-found error
\* and no suggestions when function_name names no function of the module or
\* class_name names no class of it, and returns an empty test_suggestions
\* list and no error when the module declares no function and no class and
\* no name is given.
C12_NotFoundAndEmptyModule ==
    call.op = "suggest_test_cases" =>
        /\ (\/ /\ call.function_name # None
               /\ ~DeclaresFunction(fs[call.file_path].module, call.function_name)
            \/ /\ call.class_name # None
               /\ ~DeclaresClass(fs[call.file_path].module, call.class_name)) =>
                  IsNotFound(result) /\ "test_suggestions" \notin DOMAIN result
        /\ (/\ call.function_name = None
            /\ call.class_name = None
            /\ fs[call.file_path].module.nodes = <<>>) =>
                  /\ ~IsRaised(result)
                  /\ ~IsError(result)
                  /\ result.test_suggestions = <<>>

(***************************************************************************)
(* C13                                                                     *)
(***************************************************************************)

\* the number of test functions that the analysis of the project labels
\* with the framework
TallyOf(analysis, label) ==
    Cardinality({k \in DOMAIN analysis.test_functions :
                    analysis.test_functions[k].framework = label})

\* the majority label of the tally, pytest on a tie
MajorityLabel(analysis) ==
    IF TallyOf(analysis, "unittest") > TallyOf(analysis, "pytest")
    THEN <<"u", "n", "i", "t", "t", "e", "s", "t">> ELSE <<"p", "y", "t", "e", "s", "t">>

\* suggest_test_cases was called without a framework and returned its report
ResolvedFramework ==
    /\ call.op = "suggest_test_cases"
    /\ call.framework = None
    /\ "test_suggestions" \in DOMAIN result

\* the framework is on the result and on every suggestion
Stamped(framework) ==
    /\ result.framework = framework
    /\ result.recommended_framework = framework
    /\ \A k \in DOMAIN result.test_suggestions :
          result.test_suggestions[k].framework = framework

\* the claim as stated: the resolved framework is the majority label of
\* the per-test-function tally
C13_Original == ResolvedFramework => Stamped(MajorityLabel(analyze_test_files(fs, None)))

\* some test file of the project that parses imports a module whose name
\* starts with the prefix (import <module>, from <module> import ...)
TestFileImports(prefix) ==
    \E t \in TestFilesBelow(<<>>) :
        /\ Parses(t)
        /\ \E i \in DOMAIN fs[t].module.nodes :
              \/ /\ fs[t].module.nodes[i].type = "Import"
                 /\ \E a \in DOMAIN fs[t].module.nodes[i].names :
                        StartsWith(fs[t].module.nodes[i].names[a].name, prefix)
              \/ /\ fs[t].module.nodes[i].type = "ImportFrom"
                 /\ StartsWith(fs[t].module.nodes[i].module, prefix)

\* C13: when suggest_test_cases is called without a framework and returns
\* its report, the framework on the result and on every suggestion is
\* 'pytest' when a test file of the project imports a module whose name
\* starts with pytest, otherwise 'unittest' when one imports a module whose
\* name starts with unittest, otherwise 'pytest'; the labels of the test
\* functions play no part.
C13_FrameworkFromImports ==
    ResolvedFramework =>
        Stamped(IF TestFileImports(<<"p", "y", "t", "e", "s", "t">>) THEN <<"p", "y", "t", "e", "s", "t">>
                ELSE IF TestFileImports(<<"u", "n", "i", "t", "t", "e", "s", "t">>) THEN <<"u", "n", "i", "t", "t", "e", "s", "t">>
                ELSE <<"p", "y", "t", "e", "s", "t">>)

\* pytest is resolved from an import although the only test functions of
\* the project are labelled unittest
C13_Witness ==
    /\ ResolvedFramework
    /\ result.test_suggestions # <<>>
    /\ TestFileImports(<<"p", "y", "t", "e", "s", "t">>)
    /\ TestFileImports(<<"u", "n", "i", "t", "t", "e", "s", "t">>)
    /\ TallyOf(analyze_test_files(fs, None), "unittest") > 0
    /\ TallyOf(analyze_test_files(fs, None), "pytest") = 0
    /\ Stamped(<<"p", "y", "t", "e", "s", "t">>)

(***************************************************************************)
(* C14                                                                     *)
(***************************************************************************)

\* find_untested_code returned its report
Reported ==
    call.op = "find_untested_code" /\ ~IsError(result) /\ ~IsRaised(result)

\* C14: no entry of untested_functions or untested_classes of a report of
\* find_untested_code has a name that starts with an underscore, whatever
\* the test files import.
C14_NoPrivateSymbolListed ==
    Reported =>
        /\ \A k \in DOMAIN result.untested_functions :
              result.untested_functions[k].name[1] # "_"
        /\ \A k \in DOMAIN result.untested_classes :
              result.untested_classes[k].name[1] # "_"

\* a report that lists the public function and the public class of a
\* module that also declares a private function and a private class
C14_Witness ==
    /\ Reported
    /\ \E p \in DOMAIN fs :
          /\ DeclaresFunction(fs[p].module, <<"_", "h", "i", "d", "d", "e", "n">>)
          /\ DeclaresClass(fs[p].module, <<"_", "I", "m", "p", "l">>)
          /\ ListedIn(result.untested_functions, p, <<"f", "o", "o">>)
          /\ ListedIn(result.untested_classes, p, <<"B", "a", "r">>)

(***************************************************************************)
(* C15                                                                     *)
(***************************************************************************)

\* C15: a source file that declares no function and no class is in
\* untested_files of no report of find_untested_code.
C15_EmptyModuleNotListed ==
    Reported =>
        \A k \in DOMAIN result.untested_files :
            fs[result.untested_files[k].file_path].module.nodes # <<>>

(***************************************************************************)
(* C16                                                                     *)
(***************************************************************************)

\* the parameter names of a signature in the order of their declaration:
\* positional-only, positional, *args, keyword-only, **kwargs
DeclarationOrder(args) ==
    [i \in DOMAIN args.posonlyargs |-> args.posonlyargs[i].arg]
    \o [i \in DOMAIN args.args |-> args.args[i].arg]
    \o (IF args.vararg # NoArg THEN <<args.vararg.arg>> ELSE <<>>)
    \o [i \in DOMAIN args.kwonlyargs |-> args.kwonlyargs[i].arg]
    \o (IF args.kwarg # NoArg THEN <<args.kwarg.arg>> ELSE <<>>)

\* the place of a name in a list of distinct names
PlaceOf(name, names) == CHOOSE i \in DOMAIN names : names[i] = name

\* C16: the entries of the 'parameters' list that extract_function_info
\* returns stand in the order in which the signature declares them, with
\* or without defaults: (a, *args, k1, **kwargs) yields a, args, k1, kwargs.
C16_DeclarationOrder ==
    (call.op = "extract_function_info" /\ ~IsRaised(result)) =>
        \A i, j \in DOMAIN result.parameters :
            i < j => PlaceOf(result.parameters[i].name, DeclarationOrder(call.node.args))
                        < PlaceOf(result.parameters[j].name, DeclarationOrder(call.node.args))

\* the names and kinds that a signature's parameters are recorded with
NameAndKind(names, kind) == [i \in DOMAIN names |-> <<names[i].arg, kind>>]

\* C16 as the code has it: the 'parameters' list holds the positional
\* parameters in the order of their declaration, then *args, then **kwargs,
\* then the keyword-only parameters in the order of their declaration, each
\* with its kind; **kwargs stands before the keyword-only parameters,
\* positional-only parameters are not listed, and defaults change neither
\* the order nor the length.
C16_AppendOrder ==
    (call.op = "extract_function_info" /\ ~IsRaised(result)) =>
        [i \in DOMAIN result.parameters |->
            <<result.parameters[i].name, result.parameters[i].kind>>]
          = NameAndKind(call.node.args.args, "positional")
            \o (IF call.node.args.vararg # NoArg
                THEN NameAndKind(<<call.node.args.vararg>>, "vararg") ELSE <<>>)
            \o (IF call.node.args.kwarg # NoArg
                THEN NameAndKind(<<call.node.args.kwarg>>, "kwarg") ELSE <<>>)
            \o NameAndKind(call.node.args.kwonlyargs, "keyword_only")

\* extract_function_info has run on (a, b=1, *args, k1, **kwargs)
C16_Witness ==
    /\ call.op = "extract_function_info"
    /\ call.node.args = Signature(0, 2, TRUE, 1, TRUE, 1)
    /\ [i \in DOMAIN result.parameters |-> result.parameters[i].kind]
          = <<"positional", "positional", "vararg", "kwarg", "keyword_only">>
    /\ HasDefault(result.parameters[2])

(***************************************************************************)
(* read_file_content                                                       *)
(***************************************************************************)

\* A text file: its text is a sequence of characters, of which "é" takes
\* two bytes in UTF-8 and every other one byte.
TextFile(text, readable) ==
    [kind |-> "file", readable |-> readable, decodable |-> TRUE,
     parse |-> "ok", module |-> EmptyModule, text |-> text]

WidthOf(char) == IF char = "é" THEN 2 ELSE 1

\* stat().st_size: the number of bytes of the text
RECURSIVE st_size(_)
st_size(text) == IF text = <<>> THEN 0 ELSE WidthOf(Head(text)) + st_size(Tail(text))

\* config.max_file_size
max_file_size == 1048576

\* config.text_extensions
text_extensions ==
    {<<".", "t", "x", "t">>, <<".", "m", "d">>, <<".", "r", "s", "t">>, <<".", "y", "m", "l">>, <<".", "y", "a", "m", "l">>, <<".", "j", "s", "o", "n">>, <<".", "t", "o", "m", "l">>, <<".", "c", "f", "g">>, <<".", "i", "n", "i">>}

\* config.is_text_file(path)
is_text_file(path) == PathSuffix(path) \in text_extensions \/ is_python_file(path)

\* _validate_safe_path(file_path): the message of the ValueError it raises,
\* None when the path is safe
unsafe_path(file_path) ==
    IF IsSubstr(<<".", ".">>, file_path)
    THEN <<"P", "a", "t", "h", " ", "t", "r", "a", "v", "e", "r", "s", "a", "l", " ", "n", "o", "t", " ", "a", "l", "l", "o", "w", "e", "d", ":", " ">> \o file_path
    ELSE IF StartsWith(file_path, <<"/">>) \/ (Len(file_path) > 1 /\ file_path[2] = ":")
    THEN <<"A", "b", "s", "o", "l", "u", "t", "e", " ", "p", "a", "t", "h", "s", " ", "n", "o", "t", " ", "a", "l", "l", "o", "w", "e", "d", ":", " ">> \o file_path
    ELSE None

\* f.read(n) in text mode: at most n characters
read(text, n) == SubSeq(text, 1, IF n < Len(text) THEN n ELSE Len(text))

\* content.rfind('\n'), counted from 0; -1 when there is none
rfind_newline(content) ==
    IF \E i \in DOMAIN content : content[i] = "\n"
    THEN (CHOOSE i \in DOMAIN content :
              content[i] = "\n" /\ \A j \in DOMAIN content : content[j] = "\n" => j <= i) - 1
    ELSE -1

\* the content of a truncated read; last_newline > max_size * 0.9 is
\* 10 * last_newline > 9 * max_size
truncated_content(content, max_size) ==
    IF Len(content) = max_size /\ 10 * rfind_newline(content) > 9 * max_size
    THEN SubSeq(content, 1, rfind_newline(content) + 1)
    ELSE content

\* len(content.splitlines())
splitlines_count(content) ==
    Cardinality({i \in DOMAIN content : content[i] = "\n"})
    + (IF content # <<>> /\ content[Len(content)] # "\n" THEN 1 ELSE 0)

\* the result of a read of the text with the ceiling
file_content(file_path, text, file_size, max_size) ==
    [path |-> file_path,
     content |-> IF file_size > max_size THEN truncated_content(read(text, max_size), max_size)
                 ELSE text,
     size |-> file_size,
     lines |-> splitlines_count(IF file_size > max_size
                                THEN truncated_content(read(text, max_size), max_size)
                                ELSE text),
     is_python |-> is_python_file(file_path),
     is_text |-> is_text_file(file_path),
     truncated |-> file_size > max_size]

\* read_file_content(file_path, max_size); max_size is <<n>> for the
\* ceiling n and <<>> for None.  The paths read hold no blank, no control
\* character and no link.
read_file_content(files, file_path, max_size) ==
    IF unsafe_path(file_path) # None
    THEN Error(<<"I", "n", "v", "a", "l", "i", "d", " ", "p", "a", "t", "h", ":", " ">> \o unsafe_path(file_path))
    ELSE IF is_ignored_path(file_path)
    THEN Error(<<"F", "i", "l", "e", " ", "i", "s", " ", "i", "g", "n", "o", "r", "e", "d", ":", " ">> \o file_path)
    ELSE IF ~PathExists(files, file_path)
    THEN Error(<<"F", "i", "l", "e", " ", "n", "o", "t", " ", "f", "o", "u", "n", "d", ":", " ">> \o file_path)
    ELSE IF file_path \notin DOMAIN files \/ files[file_path].kind # "file"
    THEN Error(<<"P", "a", "t", "h", " ", "i", "s", " ", "n", "o", "t", " ", "a", " ", "f", "i", "l", "e", ":", " ">> \o file_path)
    ELSE IF ~files[file_path].readable
    THEN Error(<<"P", "e", "r", "m", "i", "s", "s", "i", "o", "n", " ", "d", "e", "n", "i", "e", "d", ":", " ">> \o file_path)
    ELSE file_content(file_path, files[file_path].text, st_size(files[file_path].text),
                      IF max_size = <<>> THEN max_file_size ELSE max_size[1])

(***************************************************************************)
(* The reading specification: docs/notes.txt is written with a text of two *)
(* lines, some two-byte characters first, and read_file_content is called  *)
(* on it with every ceiling up to MaxSize and on paths that are refused.   *)
(***************************************************************************)

MaxWide == 2
MaxHead == 28
MaxTail == 1
MaxSize == 31

Repeat(char, n) == [i \in 1..n |-> char]

\* wide "é", head "a", an optional newline, tail "a"
TextOf(wide, head, newline, tail) ==
    Repeat("é", wide) \o Repeat("a", head)
    \o (IF newline THEN <<"\n">> ELSE <<>>) \o Repeat("a", tail)

NotesPath == <<"d", "o", "c", "s", "/", "n", "o", "t", "e", "s", ".", "t", "x", "t">>

WriteTextFile ==
    \E wide \in 0..MaxWide, head \in 0..MaxHead, newline \in BOOLEAN, tail \in 0..MaxTail,
       readable \in BOOLEAN :
        /\ readable \/ (wide = 0 /\ head = 0 /\ ~newline /\ tail = 0)
        /\ CreateFile(NotesPath, TextFile(TextOf(wide, head, newline, tail), readable))

ReadPaths ==
    {NotesPath, <<"d", "o", "c", "s">>, <<"m", "i", "s", "s", "i", "n", "g", ".", "t", "x", "t">>, <<".", ".", "/", "n", "o", "t", "e", "s", ".", "t", "x", "t">>, <<"/", "d", "o", "c", "s", "/", "n", "o", "t", "e", "s", ".", "t", "x", "t">>,
     <<".", "g", "i", "t", "/", "c", "o", "n", "f", "i", "g">>}

ReadFileContent ==
    \E file_path \in ReadPaths, max_size \in {<<>>} \cup {<<n>> : n \in 0..MaxSize} :
        /\ file_path = NotesPath \/ max_size = <<>>
        /\ call' = [op |-> "read_file_content", file_path |-> file_path,
                    max_size |-> max_size]
        /\ result' = read_file_content(fs, file_path, max_size)
        /\ UNCHANGED fs

SpecRead == Init /\ [][WriteTextFile \/ ReadFileContent]_vars

(***************************************************************************)
(* C17                                                                     *)
(***************************************************************************)

\* the place, counted from 1, of the last newline among the first n
\* characters of the text; 0 when there is none
LastNewlineWithin(text, n) ==
    IF \E i \in 1..n : i <= Len(text) /\ text[i] = "\n"
    THEN CHOOSE i \in 1..n :
             /\ i <= Len(text) /\ text[i] = "\n"
             /\ \A j \in (i + 1)..n : j <= Len(text) => text[j] # "\n"
    ELSE 0

Prefix(text, n) == SubSeq(text, 1, IF n < Len(text) THEN n ELSE Len(text))

\* C17: read_file_content with a ceiling max_size >= 0 reports truncated
\* exactly when the size of the file exceeds max_size.  When it truncates,
\* the content is a prefix of the text of at most max_size characters: it
\* ends just after the last newline within the first max_size characters
\* if that newline lies beyond 90% of max_size, and is cut at max_size
\* otherwise.  When it does not truncate, the content is the whole text.
C17_TruncationAtCeiling ==
    (/\ call.op = "read_file_content"
     /\ call.max_size # <<>>
     /\ ~IsError(result)) =>
        LET text == fs[call.file_path].text
            max_size == call.max_size[1]
            newline == LastNewlineWithin(text, max_size)
        IN  /\ result.truncated <=> st_size(text) > max_size
            /\ result.truncated =>
                  /\ Len(result.content) <= max_size
                  /\ result.content
                        = IF 10 * (newline - 1) > 9 * max_size
                          THEN Prefix(text, newline)
                          ELSE Prefix(text, max_size)
            /\ ~result.truncated => result.content = text

(***************************************************************************)
(* C18                                                                     *)
(***************************************************************************)

\* C18: the value that find_untested_code returns does not depend on the
\* order in which the scan of the source directory yields the files: every
\* order gives the value of this call, lists in the same order included.
\* (The test files are sorted by path before they are analysed.)
C18_OrderIndependent ==
    call.op = "find_untested_code" =>
        \A source_files \in Orders(source_files_in(fs, call.source_dir)) :
            find_untested_code(fs, call.source_dir, call.test_dir, source_files) = result

(***************************************************************************)
(* The calls specification: tests/test_m.py holds `import pytest` and a    *)
(* test function, decorated or not, whose body is one or two expression    *)
(* statements, each a call; analyze_test_files is called as before.        *)
(***************************************************************************)

\* pytest.mark.parametrize('a') / pytest.mark.skip(reason='r') /
\* pytest.mark(1) / helpers().mark() / mocker.Mock() / mock.MagicMock() /
\* mocker.patch('a') / MagicMock() / mock_open() / self.assertEqual(1, 1) /
\* run()
CallChoices ==
    <<Call(Attribute(Attribute(Name(<<"p", "y", "t", "e", "s", "t">>), <<"m", "a", "r", "k">>), <<"p", "a", "r", "a", "m", "e", "t", "r", "i", "z", "e">>),
           <<StrConstant(<<"a">>)>>, <<>>),
      Call(Attribute(Attribute(Name(<<"p", "y", "t", "e", "s", "t">>), <<"m", "a", "r", "k">>), <<"s", "k", "i", "p">>), <<>>,
           <<Keyword(<<"r", "e", "a", "s", "o", "n">>, StrConstant(<<"r">>))>>),
      Call(Attribute(Name(<<"p", "y", "t", "e", "s", "t">>), <<"m", "a", "r", "k">>), <<IntConstant(1)>>, <<>>),
      Call(Attribute(Call(Name(<<"h", "e", "l", "p", "e", "r", "s">>), <<>>, <<>>), <<"m", "a", "r", "k">>), <<>>, <<>>),
      Call(Attribute(Name(<<"m", "o", "c", "k", "e", "r">>), <<"M", "o", "c", "k">>), <<>>, <<>>),
      Call(Attribute(Name(<<"m", "o", "c", "k">>), <<"M", "a", "g", "i", "c", "M", "o", "c", "k">>), <<>>, <<>>),
      Call(Attribute(Name(<<"m", "o", "c", "k", "e", "r">>), <<"p", "a", "t", "c", "h">>), <<StrConstant(<<"a">>)>>, <<>>),
      Call(Name(<<"M", "a", "g", "i", "c", "M", "o", "c", "k">>), <<>>, <<>>),
      Call(Name(<<"m", "o", "c", "k", "_", "o", "p", "e", "n">>), <<>>, <<>>),
      Call(Attribute(Name(<<"s", "e", "l", "f">>), <<"a", "s", "s", "e", "r", "t", "E", "q", "u", "a", "l">>), <<IntConstant(1), IntConstant(1)>>, <<>>),
      Call(Name(<<"r", "u", "n">>), <<>>, <<>>)>>

\* import pytest / [@decorator] / def test_x(): / <first> / [<second>]
CallsModule(decorators, first, second) ==
    Module(PassStmt,
           <<Import(0, <<Alias(<<"p", "y", "t", "e", "s", "t">>, None)>>, 1),
             FunctionDef("FunctionDef", 0, <<"t", "e", "s", "t", "_", "x">>, Positional(<<>>), decorators, NoExpr,
                         ExprStmt(CallChoices[first]), 3),
             Expr(2, CallChoices[first], 4)>>
           \o (IF second = 0 THEN <<>> ELSE <<Expr(2, CallChoices[second], 5)>>))

WriteCallsModule ==
    \E decorated \in BOOLEAN, first \in DOMAIN CallChoices, second \in 0..Len(CallChoices) :
        CreateFile(TestModulePath,
                   SourceFile(CallsModule(IF decorated THEN <<CallChoices[1]>> ELSE <<>>,
                                          first, second)))

SpecCalls == Init /\ [][WriteCallsModule \/ AnalyzeTestFiles]_vars

(***************************************************************************)
(* C19                                                                     *)
(***************************************************************************)

\* the calls that stand as a statement or as a decorator in the module,
\* each with its line
StatementCalls(module) ==
    {[e |-> module.nodes[i].value, lineno |-> module.nodes[i].lineno] :
        i \in {j \in DOMAIN module.nodes : /\ module.nodes[j].type = "Expr"
                                            /\ module.nodes[j].value.node = "Call"}}
    \cup UNION {{[e |-> module.nodes[i].decorator_list[k],
                  lineno |-> module.nodes[i].lineno
                             - (Len(module.nodes[i].decorator_list) - k + 1)] :
                    k \in {d \in DOMAIN module.nodes[i].decorator_list :
                              module.nodes[i].decorator_list[d].node = "Call"}} :
                i \in {j \in DOMAIN module.nodes : IsFunctionNode(module.nodes[j])}}

\* <namespace>.mark.<attr>(...)
IsMarkerCall(e) ==
    /\ e.func.node = "Attribute"
    /\ e.func.value.node = "Attribute"
    /\ e.func.value.attr = <<"m", "a", "r", "k">>
    /\ e.func.value.value.node = "Name"

\* analyze_test_files returned its analysis with the test module in it
AnalysedModule ==
    /\ call.op = "analyze_test_files"
    /\ ~IsError(result)
    /\ ~IsRaised(result)
    /\ TestModulePath \in DOMAIN fs

\* C19: for every call of the shape <namespace>.mark.<attr>(...) in a
\* parsed test file the analysis has one entry in markers, with the path of
\* the file, the line of the call and the namespace identifier as its name.
C19_MarkerCallsRecorded ==
    AnalysedModule =>
        \A c \in StatementCalls(fs[TestModulePath].module) :
            IsMarkerCall(c.e) =>
                Cardinality({k \in DOMAIN result.markers :
                                /\ result.markers[k].file_path = TestModulePath
                                /\ result.markers[k].line_number = c.lineno
                                /\ result.markers[k].name = c.e.func.value.value.id}) = 1

(***************************************************************************)
(* C20                                                                     *)
(***************************************************************************)

\* the callee is an attribute whose name contains 'mock' in any case, or a
\* plain name that contains 'Mock'
IsMockCall(e) ==
    \/ e.func.node = "Attribute" /\ ContainsIgnoringCase(<<"m", "o", "c", "k">>, e.func.attr)
    \/ e.func.node = "Name" /\ IsSubstr(<<"M", "o", "c", "k">>, e.func.id)

\* C20: the analysis has one entry in mock_usage for every call of a parsed
\* test file whose callee is an attribute with 'mock' in its name, in any
\* case, or a plain name with 'Mock' in it, and for no other call.
C20_MockCallsRecorded ==
    AnalysedModule =>
        /\ \A c \in StatementCalls(fs[TestModulePath].module) :
              Cardinality({k \in DOMAIN result.mock_usage :
                              /\ result.mock_usage[k].file_path = TestModulePath
                              /\ result.mock_usage[k].line_number = c.lineno})
                 = IF IsMockCall(c.e) THEN 1 ELSE 0
        /\ \A k \in DOMAIN result.mock_usage :
              \E c \in StatementCalls(fs[TestModulePath].module) :
                  result.mock_usage[k].line_number = c.lineno

(***************************************************************************)
(* C21                                                                     *)
(***************************************************************************)

\* C21: analyze_test_files has an entry in fixtures for a function of a
\* parsed test file exactly when one of the function's decorators is
\* `fixture` or `<x>.fixture`, called or not; the text 'fixture' elsewhere
\* in a decorator (@pytest.mark.usefixtures('db')) does not make one.
C21_FixtureIffFixtureDecorator ==
    (Analysed /\ TestModulePath \in DOMAIN fs) =>
        \A i \in DOMAIN fs[TestModulePath].module.nodes :
            LET node == fs[TestModulePath].module.nodes[i]
            IN  IsFunctionNode(node) =>
                    ((\E k \in DOMAIN result.fixtures :
                         /\ result.fixtures[k].file_path = TestModulePath
                         /\ result.fixtures[k].name = node.name
                         /\ result.fixtures[k].line_number = node.lineno)
                     <=> \E d \in DOMAIN node.decorator_list :
                             IsFixtureDecorator(node.decorator_list[d]))

(***************************************************************************)
(* C22                                                                     *)
(***************************************************************************)

AsyncSuggestionsFor(name) ==
    {k \in SuggestionsFor(name) : result.test_suggestions[k].test_type = "async"}

\* the def is an async def, or its docstring contains "async"
IsAsyncOrMentionsAsync(node) ==
    \/ node.type = "AsyncFunctionDef"
    \/ HasDocstring(node) /\ ContainsIgnoringCase(<<"a", "s", "y", "n", "c">>, node.first_stmt.value.value)

\* C22: the suggestions that suggest_test_cases generates for a function
\* contain exactly one suggestion of test_type 'async' when the function is
\* an async def (with or without a docstring) or its docstring contains
\* "async", and none otherwise.
C22_OneAsyncSuggestionIffAsync ==
    Suggested =>
        \A i \in DOMAIN fs[ModulePath].module.nodes :
            LET node == fs[ModulePath].module.nodes[i]
            IN  (IsFunctionNode(node) /\ SuggestionsFor(node.name) # {}) =>
                    Cardinality(AsyncSuggestionsFor(node.name))
                        = IF IsAsyncOrMentionsAsync(node) THEN 1 ELSE 0

(***************************************************************************)
(* C23: the edge cases that a parameter's declared type adds               *)
(***************************************************************************)

\* the declared types of the one parameter of f
TypeAnnotations ==
    <<NoExpr, Name(<<"s", "t", "r">>), Name(<<"i", "n", "t">>), Name(<<"l", "i", "s", "t">>), Name(<<"d", "i", "c", "t">>),
      Name(<<"f", "l", "o", "a", "t">>),
      Subscript(Name(<<"L", "i", "s", "t">>), Name(<<"s", "t", "r">>)),
      Subscript(Name(<<"L", "i", "s", "t">>), Name(<<"i", "n", "t">>)),
      Subscript(Name(<<"l", "i", "s", "t">>), Name(<<"i", "n", "t">>)),
      Subscript(Name(<<"D", "i", "c", "t">>), Tuple(<<Name(<<"s", "t", "r">>), Name(<<"i", "n", "t">>)>>)),
      Subscript(Name(<<"d", "i", "c", "t">>), Tuple(<<Name(<<"s", "t", "r">>), Name(<<"s", "t", "r">>)>>))>>

\* def f(x: <annotation>): pass, or the same function as a method of K
WriteTypedModule ==
    \E annotation \in DOMAIN TypeAnnotations, in_class \in BOOLEAN :
        CreateFile(ModulePath,
                   SourceFile(SuggestModule("FunctionDef", <<"f">>, in_class,
                                            Arguments(<<>>, <<Arg(<<"x">>, TypeAnnotations[annotation])>>,
                                                      NoArg, <<>>, NoArg, <<>>),
                                            NoExpr, PassStmt)))

SpecTypes == Init /\ [][WriteTypedModule \/ SuggestTestCases]_vars

\* the category of a declared type: the type itself, or the generic that
\* it subscripts
TypeCategory(annotation) ==
    LET base == IF annotation.node = "Subscript" THEN annotation.value ELSE annotation
    IN  IF base.node # "Name" THEN "other"
        ELSE IF base.id = <<"s", "t", "r">> THEN "string"
        ELSE IF base.id = <<"i", "n", "t">> THEN "int"
        ELSE IF base.id \in {<<"l", "i", "s", "t">>, <<"L", "i", "s", "t">>} THEN "list"
        ELSE IF base.id \in {<<"d", "i", "c", "t">>, <<"D", "i", "c", "t">>} THEN "dict"
        ELSE "other"

\* the names of the edge-case suggestions that the category calls for
EdgeCaseNames(name, param, category) ==
    CASE category = "string" -> {<<"t", "e", "s", "t", "_">> \o name \o <<"_", "w", "i", "t", "h", "_", "e", "m", "p", "t", "y", "_", "s", "t", "r", "i", "n", "g", "_">> \o param}
      [] category = "int" -> {<<"t", "e", "s", "t", "_">> \o name \o <<"_", "w", "i", "t", "h", "_", "z", "e", "r", "o", "_">> \o param,
                              <<"t", "e", "s", "t", "_">> \o name \o <<"_", "w", "i", "t", "h", "_", "n", "e", "g", "a", "t", "i", "v", "e", "_">> \o param}
      [] category = "list" -> {<<"t", "e", "s", "t", "_">> \o name \o <<"_", "w", "i", "t", "h", "_", "e", "m", "p", "t", "y", "_", "l", "i", "s", "t", "_">> \o param}
      [] category = "dict" -> {<<"t", "e", "s", "t", "_">> \o name \o <<"_", "w", "i", "t", "h", "_", "e", "m", "p", "t", "y", "_", "d", "i", "c", "t", "_">> \o param}
      [] OTHER -> {}

EdgeCaseSuggestionsFor(name) ==
    {k \in SuggestionsFor(name) : result.test_suggestions[k].test_type = "edge_case"}

\* C23: for a positional parameter, the edge-case suggestions are those of
\* the category of its declared type, each once: empty string for a string
\* type, zero and negative for an int type, empty list for a list type
\* (list, List[str], List[int]), empty dict for a dict type (dict,
\* Dict[str, int]), and none for a parameter without a declared type.
C23_EdgeCasesFollowTypeCategory ==
    Suggested =>
        \A i \in DOMAIN fs[ModulePath].module.nodes :
            LET node == fs[ModulePath].module.nodes[i]
            IN  (IsFunctionNode(node) /\ SuggestionsFor(node.name) # {}) =>
                    \A a \in DOMAIN node.args.args :
                        LET arg == node.args.args[a]
                            expected == EdgeCaseNames(node.name, arg.arg, TypeCategory(arg.annotation))
                            emitted == {k \in EdgeCaseSuggestionsFor(node.name) :
                                            EndsWith(result.test_suggestions[k].test_name,
                                                     <<"_">> \o arg.arg)}
                        IN  /\ {result.test_suggestions[k].test_name : k \in emitted} = expected
                            /\ Cardinality(emitted) = Cardinality(expected)

(***************************************************************************)
(* C24                                                                     *)
(***************************************************************************)

\* some import statement of the file names a module that contains 'pytest'
HasPytestImport(nodes) ==
    \E i \in DOMAIN nodes :
        \/ nodes[i].type = "ImportFrom" /\ IsSubstr(<<"p", "y", "t", "e", "s", "t">>, Lower(nodes[i].module))
        \/ /\ nodes[i].type = "Import"
           /\ \E k \in DOMAIN nodes[i].names :
                  IsSubstr(<<"p", "y", "t", "e", "s", "t">>, Lower(nodes[i].names[k].name))

\* rules 1 and 2: node i is a method of a class with a TestCase/unittest
\* token in a base, or of a class named Test... in a file that imports pytest
DecidedByClass(nodes, i) ==
    \/ InUnittestClass(nodes, i)
    \/ /\ nodes[i].parent # 0
       /\ IsClassNode(nodes[nodes[i].parent])
       /\ StartsWith(nodes[nodes[i].parent].name, <<"T", "e", "s", "t">>)
       /\ HasPytestImport(nodes)

\* rule 3: a decorator of the def contains a pytest pattern
HasPytestDecorator(node) ==
    \E d \in DOMAIN node.decorator_list :
        AnyIn({<<"p", "y", "t", "e", "s", "t", ".">>, <<"p", "a", "r", "a", "m", "e", "t", "r", "i", "z", "e">>, <<"f", "i", "x", "t", "u", "r", "e">>, <<"m", "a", "r", "k", ".">>},
              Lower(unparse(node.decorator_list[d])))

\* rule 5: a parameter of the def has the name of a well-known pytest fixture
TakesPytestFixture(node) ==
    \E a \in DOMAIN node.args.args :
        node.args.args[a].arg \in {<<"r", "e", "q", "u", "e", "s", "t">>, <<"t", "m", "p", "_", "p", "a", "t", "h">>, <<"t", "m", "p", "d", "i", "r">>, <<"c", "a", "p", "s", "y", "s">>,
                                   <<"m", "o", "n", "k", "e", "y", "p", "a", "t", "c", "h">>}

\* C24: a test function that rules 1-3 do not decide and that has a
\* parameter named like a well-known pytest fixture is labelled 'pytest'
\* (rule 5 before rule 6), also when its first parameter is named self.
C24_FixtureParameterBeforeSelf ==
    Analysed =>
        \A k \in DOMAIN result.test_functions :
            LET e == result.test_functions[k]
                nodes == fs[e.file_path].module.nodes
                i == DefAt(e.file_path, e.line_number)
            IN  (/\ ~DecidedByClass(nodes, i)
                 /\ ~HasPytestDecorator(nodes[i])
                 /\ TakesPytestFixture(nodes[i])) => e.framework = "pytest"

(***************************************************************************)
(* C25                                                                     *)
(***************************************************************************)

\* the module and the name that the import list holds for name k of import
\* statement i: `import m` has the module m and no name, `from m import n`
\* the module m ('' for a relative import without a module) and the name n
ImportedModule(nodes, i, k) ==
    IF nodes[i].type = "Import" THEN nodes[i].names[k].name
    ELSE IF nodes[i].module = None THEN <<>> ELSE nodes[i].module

ImportedName(nodes, i, k) ==
    IF nodes[i].type = "Import" THEN <<>> ELSE nodes[i].names[k].name

ImportedNames(nodes) ==
    {<<i, k>> \in (DOMAIN nodes) \X (1..2) :
        nodes[i].type \in {"Import", "ImportFrom"} /\ k \in DOMAIN nodes[i].names}

Mentions(token, nodes, i, k) ==
    \/ IsSubstr(token, Lower(ImportedModule(nodes, i, k)))
    \/ IsSubstr(token, Lower(ImportedName(nodes, i, k)))

\* the imports that indicate pytest
PytestAffinity(nodes) ==
    Cardinality({ik \in ImportedNames(nodes) : Mentions(<<"p", "y", "t", "e", "s", "t">>, nodes, ik[1], ik[2])})

\* the imports and the decorators that indicate unittest
UnittestAffinity(nodes, node) ==
    Cardinality({ik \in ImportedNames(nodes) :
                    /\ ~Mentions(<<"p", "y", "t", "e", "s", "t">>, nodes, ik[1], ik[2])
                    /\ Mentions(<<"u", "n", "i", "t", "t", "e", "s", "t">>, nodes, ik[1], ik[2])})
    + Cardinality({d \in DOMAIN node.decorator_list :
                      AnyIn({<<"u", "n", "i", "t", "t", "e", "s", "t", ".">>, <<"m", "o", "c", "k", ".", "p", "a", "t", "c", "h">>},
                            Lower(unparse(node.decorator_list[d])))})

\* none of the rules 1 to 7 decides the def at node i
UndecidedByRules1To7(nodes, i) ==
    /\ ~DecidedByClass(nodes, i)
    /\ ~HasPytestDecorator(nodes[i])
    /\ ~TakesPytestFixture(nodes[i])
    /\ ~(nodes[i].args.args # <<>> /\ nodes[i].args.args[1].arg = <<"s", "e", "l", "f">>)
    /\ nodes[i].name \notin {<<"s", "e", "t", "U", "p">>, <<"t", "e", "a", "r", "D", "o", "w", "n">>, <<"s", "e", "t", "U", "p", "C", "l", "a", "s", "s">>, <<"t", "e", "a", "r", "D", "o", "w", "n", "C", "l", "a", "s", "s">>}

\* rules 8 to 10
LabelByRules8To10(nodes, i) ==
    IF StartsWith(nodes[i].name, <<"t", "e", "s", "t", "_">>) /\ Len(nodes[i].args.args) > 1 THEN "pytest"
    ELSE IF UnittestAffinity(nodes, nodes[i]) > PytestAffinity(nodes) THEN "unittest"
    ELSE "pytest"

HasTestName(path) ==
    \/ StartsWith(PathName(path), <<"t", "e", "s", "t", "_">>) /\ EndsWith(PathName(path), <<".", "p", "y">>)
    \/ EndsWith(PathName(path), <<"_", "t", "e", "s", "t", ".", "p", "y">>)
    \/ PathName(path) = <<"t", "e", "s", "t", "s", ".", "p", "y">>

\* the file is under a directory named tests or test
UnderTestDirectory(path) ==
    LET parts == Split(path, "/")
    IN  \E i \in 1..(Len(parts) - 1) : parts[i] \in {<<"t", "e", "s", "t", "s">>, <<"t", "e", "s", "t">>}

\* the Python files under source_dir that are source files
SourceFilesUnder(source_dir) ==
    {p \in DOMAIN fs :
        /\ fs[p].kind = "file"
        /\ EndsWith(p, <<".", "p", "y">>)
        /\ source_dir = None \/ StartsWith(p, source_dir \o <<"/">>)
        /\ ~is_ignored_path(p)
        /\ ~UnderTestDirectory(p)
        /\ ~HasTestName(p)}

\* C26: find_untested_code counts in total_source_files every Python file
\* under the source directory that is not ignored, is not under a test
\* directory and is not named test_*.py, *_test.py or tests.py, also when
\* its path contains the letters 'test' (pkg/contest.py).
C26_SourceFilesCounted ==
    Reported =>
        result.analysis_summary.total_source_files
            = Cardinality(SourceFilesUnder(call.source_dir))

(***************************************************************************)
(* C27                                                                     *)
(***************************************************************************)

\* C27: for every signature, also one whose positional-only parameters
\* carry defaults, extract_function_info does not raise, and an entry that
\* carries a 'default' is of kind 'positional', is one of the last d of the
\* p entries for args (d defaults) and carries the default declared for it;
\* vararg, kwarg and keyword_only entries carry none.
C27_DefaultsOnlyOnPositional ==
    (call.op = "extract_function_info") =>
        LET args == call.node.args
            p == Len(args.args)
            d == Len(args.defaults)
        IN  /\ ~IsRaised(result)
            /\ \A j \in 1..Len(result.parameters) :
                  HasDefault(result.parameters[j]) =>
                      /\ result.parameters[j].kind = "positional"
                      /\ j <= p
                      /\ j > p - d
                      /\ result.parameters[j].default = unparse(args.defaults[d - p + j])

(***************************************************************************)
(* C28                                                                     *)
(***************************************************************************)

\* the test files that the call finds, each once
TestFilesFound ==
    LET found == find_test_files(fs, IF call.directory = None THEN <<>> ELSE call.directory)
    IN  {found[k].path : k \in DOMAIN found}

\* C28: analyze_test_files analyses each test file once: no two entries of
\* test_files share a path, total_test_files is the number of distinct
\* test files found, and no test function is reported twice, also for a
\* file whose name matches two discovery patterns (tests/test_api_test.py).
C28_EachTestFileOnce ==
    Analysed =>
        /\ \A i, j \in DOMAIN result.test_files :
              result.test_files[i].file_path = result.test_files[j].file_path => i = j
        /\ result.total_test_files = Cardinality(TestFilesFound)
        /\ \A i, j \in DOMAIN result.test_functions :
              (/\ result.test_functions[i].file_path = result.test_functions[j].file_path
               /\ result.test_functions[i].line_number = result.test_functions[j].line_number)
                  => i = j

(***************************************************************************)
(* server.py: the validation of the arguments and handle_call_tool.  The   *)
(* text of a TextContent is either a message, [message |-> the text], or  *)
(* the JSON document of a result, [json |-> the value it encodes].  A path *)
(* of fs is the path joined to config.project_root: '../secret.py' and     *)
(* '/etc/app.py' are files outside the project root.                       *)
(***************************************************************************)

ValueError(message) == [raised |-> "ValueError", message |-> message]

\* what a validation returns
Returned(value) == [value |-> value]

\* s.strip() for a text whose only whitespace is the space
RECURSIVE strip(_)
strip(s) ==
    IF s # <<>> /\ s[1] = " " THEN strip(Tail(s))
    ELSE IF s # <<>> /\ s[Len(s)] = " " THEN strip(SubSeq(s, 1, Len(s) - 1))
    ELSE s

\* s.isalnum() for ASCII text
isalnum(s) ==
    /\ s # <<>>
    /\ \A i \in DOMAIN s :
          \/ \E k \in DOMAIN UpperLetters : s[i] \in {UpperLetters[k], LowerLetters[k]}
          \/ \E k \in DOMAIN Digits : s[i] = Digits[k]

\* _validate_file_path(file_path)
_validate_file_path(file_path) ==
    IF file_path = <<>> \/ file_path = None
    THEN ValueError(<<"f", "i", "l", "e", "_", "p", "a", "t", "h", " ", "m", "u", "s", "t", " ", "b", "e", " ", "a", " ", "n", "o", "n", "-", "e", "m", "p", "t", "y", " ", "s", "t", "r", "i", "n", "g">>)
    ELSE IF IsSubstr(<<".", ".">>, file_path) \/ StartsWith(file_path, <<"/">>)
    THEN ValueError(<<"I", "n", "v", "a", "l", "i", "d", " ", "p", "a", "t", "h", ":", " ", "p", "a", "t", "h", " ", "t", "r", "a", "v", "e", "r", "s", "a", "l", " ", "o", "r", " ", "a", "b", "s", "o", "l", "u", "t", "e", " ", "p", "a", "t", "h", "s", " ", "n", "o", "t", " ", "a", "l", "l", "o", "w", "e", "d">>)
    ELSE Returned(strip(file_path))

\* _validate_max_size(max_size), for None (<<>>) or an int (<<n>>)
_validate_max_size(max_size) ==
    IF max_size = <<>> THEN Returned(<<max_file_size>>)
    ELSE IF max_size[1] < 0
    THEN ValueError(<<"m", "a", "x", "_", "s", "i", "z", "e", " ", "m", "u", "s", "t", " ", "b", "e", " ", "a", " ", "v", "a", "l", "i", "d", " ", "i", "n", "t", "e", "g", "e", "r", ":", " ", "m", "a", "x", "_", "s", "i", "z", "e", " ", "m", "u", "s", "t", " ", "b", "e", " ", "n", "o", "n", "-", "n", "e", "g", "a", "t", "i", "v", "e">>)
    ELSE IF max_size[1] > 100 * 1024 * 1024
    THEN ValueError(<<"m", "a", "x", "_", "s", "i", "z", "e", " ", "m", "u", "s", "t", " ", "b", "e", " ", "a", " ", "v", "a", "l", "i", "d", " ", "i", "n", "t", "e", "g", "e", "r", ":", " ", "m", "a", "x", "_", "s", "i", "z", "e", " ", "t", "o", "o", " ", "l", "a", "r", "g", "e", " ", "(", "m", "a", "x", " ", "1", "0", "0", "M", "B", ")">>)
    ELSE Returned(max_size)

\* _validate_framework(framework)
_validate_framework(framework) ==
    IF framework = None THEN Returned(None)
    ELSE IF Lower(strip(framework)) \notin {<<"p", "y", "t", "e", "s", "t">>, <<"u", "n", "i", "t", "t", "e", "s", "t">>}
    THEN ValueError(<<"f", "r", "a", "m", "e", "w", "o", "r", "k", " ", "m", "u", "s", "t", " ", "b", "e", " ", "'", "p", "y", "t", "e", "s", "t", "'", " ", "o", "r", " ", "'", "u", "n", "i", "t", "t", "e", "s", "t", "'">>)
    ELSE Returned(Lower(strip(framework)))

\* _validate_identifier(identifier, name)
_validate_identifier(identifier, name) ==
    IF identifier = <<>>
    THEN ValueError(name \o <<" ", "m", "u", "s", "t", " ", "b", "e", " ", "a", " ", "n", "o", "n", "-", "e", "m", "p", "t", "y", " ", "s", "t", "r", "i", "n", "g">>)
    ELSE IF ~isalnum(SelectSeq(strip(identifier), LAMBDA c : c \notin {"_", "."}))
    THEN ValueError(name \o <<" ", "m", "u", "s", "t", " ", "b", "e", " ", "a", " ", "v", "a", "l", "i", "d", " ", "P", "y", "t", "h", "o", "n", " ", "i", "d", "e", "n", "t", "i", "f", "i", "e", "r">>)
    ELSE Returned(strip(identifier))

\* an optional identifier: None stays None
validate_optional(identifier, name) ==
    IF identifier = None THEN Returned(None) ELSE _validate_identifier(identifier, name)

\* the first exception that the validations raised, or [ok |-> TRUE]
first_raised(values) ==
    IF \E i \in DOMAIN values : IsRaised(values[i])
    THEN values[CHOOSE i \in DOMAIN values :
                    IsRaised(values[i]) /\ \A j \in 1..(i - 1) : ~IsRaised(values[j])]
    ELSE [ok |-> TRUE]

TextContent(text) == [type |-> "text", text |-> text]

\* _safe_json_dumps(obj) of a result that json.dumps can serialize
_safe_json_dumps(obj) == [json |-> obj]

\* str(e) of an exception
ExceptionText(e) == IF "message" \in DOMAIN e THEN e.message ELSE ExcText(e.raised)

\* the except arm of handle_call_tool, without config.debug
error_text(name, e) ==
    TextContent([message |-> <<"E", "r", "r", "o", "r", " ", "e", "x", "e", "c", "u", "t", "i", "n", "g", " ">> \o name \o <<":", " ">> \o ExceptionText(e)])

\* the return of an arm: the validations in the order of the code, then the
\* call of the tool
tool_result(name, validations, value) ==
    IF IsRaised(first_raised(validations)) THEN error_text(name, first_raised(validations))
    ELSE IF IsRaised(value) THEN error_text(name, value)
    ELSE TextContent(_safe_json_dumps(value))

\* handle_call_tool(name, arguments): the arms of the tools that take a
\* file_path, of analyze_test_files, and of an unknown tool
handle_call_tool(files, name, arguments) ==
    LET file_path == _validate_file_path(arguments.file_path)
        max_size == _validate_max_size(arguments.max_size)
        function_name == _validate_identifier(arguments.function_name, <<"f", "u", "n", "c", "t", "i", "o", "n", "_", "n", "a", "m", "e">>)
        class_name == _validate_identifier(arguments.class_name, <<"c", "l", "a", "s", "s", "_", "n", "a", "m", "e">>)
        optional_function == validate_optional(arguments.function_name, <<"f", "u", "n", "c", "t", "i", "o", "n", "_", "n", "a", "m", "e">>)
        optional_class == validate_optional(arguments.class_name, <<"c", "l", "a", "s", "s", "_", "n", "a", "m", "e">>)
        framework == _validate_framework(arguments.framework)
    IN  CASE name = <<"r", "e", "a", "d", "_", "f", "i", "l", "e">> ->
                tool_result(name, <<file_path, max_size>>,
                            read_file_content(files, file_path.value, max_size.value))
          [] name = <<"p", "a", "r", "s", "e", "_", "m", "o", "d", "u", "l", "e">> ->
                tool_result(name, <<file_path>>, parse_module_ast(files, file_path.value))
          [] name = <<"g", "e", "t", "_", "f", "u", "n", "c", "t", "i", "o", "n", "_", "d", "e", "t", "a", "i", "l", "s">> ->
                tool_result(name, <<file_path, function_name>>,
                            get_function_details(files, file_path.value, function_name.value))
          [] name = <<"g", "e", "t", "_", "c", "l", "a", "s", "s", "_", "d", "e", "t", "a", "i", "l", "s">> ->
                tool_result(name, <<file_path, class_name>>,
                            get_class_details(files, file_path.value, class_name.value))
          [] name = <<"f", "i", "n", "d", "_", "i", "m", "p", "o", "r", "t", "s">> ->
                tool_result(name, <<>>, find_imports_in_file(files, arguments.file_path))
          [] name = <<"g", "e", "t", "_", "t", "y", "p", "e", "_", "h", "i", "n", "t", "s">> ->
                tool_result(name, <<>>, get_type_hints_from_file(files, arguments.file_path))
          [] name = <<"a", "n", "a", "l", "y", "z", "e", "_", "t", "e", "s", "t", "_", "f", "i", "l", "e", "s">> ->
                tool_result(name, <<>>, analyze_test_files(files, arguments.directory))
          [] name = <<"s", "u", "g", "g", "e", "s", "t", "_", "t", "e", "s", "t", "_", "c", "a", "s", "e", "s">> ->
                tool_result(name, <<file_path, optional_function, optional_class, framework>>,
                            suggest_test_cases(files, file_path.value, optional_function.value,
                                               optional_class.value, framework.value))
          [] OTHER -> error_text(name, ValueError(<<"U", "n", "k", "n", "o", "w", "n", " ", "t", "o", "o", "l", ":", " ">> \o name))

(***************************************************************************)
(* The server on a project with files inside and outside the project root  *)
(***************************************************************************)

MaxServerFiles == 2

\* def f(): pass / class K: pass
ServerModule ==
    Module(PassStmt,
           <<FunctionDef("FunctionDef", 0, <<"f">>, Positional(<<>>), <<>>, NoExpr, PassStmt, 1),
             ClassDef(0, <<"K">>, <<>>, <<>>, PassStmt, 2)>>)

\* a source file with its text
ServerFile ==
    [kind |-> "file", readable |-> TRUE, decodable |-> TRUE, parse |-> "ok",
     module |-> ServerModule,
     text |-> <<"d", "e", "f", " ", "f", "(", ")", ":", " ", "p", "a", "s", "s">> \o <<"\n">> \o <<"c", "l", "a", "s", "s", " ", "K", ":", " ", "p", "a", "s", "s">> \o <<"\n">>]

\* the files: two inside the project root, two outside
ServerCatalogue ==
    <<ProjectFile(<<"m", ".", "p", "y">>, ServerFile),
      ProjectFile(<<"d", "o", "c", "s", "/", "n", "o", "t", "e", "s", ".", "t", "x", "t">>, TextFile(<<"n", "o", "t", "e">> \o <<"\n">>, TRUE)),
      ProjectFile(<<".", ".", "/", "s", "e", "c", "r", "e", "t", ".", "p", "y">>, ServerFile),
      ProjectFile(<<"/", "e", "t", "c", "/", "a", "p", "p", ".", "p", "y">>, ServerFile)>>

WriteServerFile ==
    /\ Cardinality(DOMAIN fs) < MaxServerFiles
    /\ \E k \in DOMAIN ServerCatalogue :
          CreateFile(ServerCatalogue[k].path, ServerCatalogue[k].file)

FilePathTools ==
    {<<"r", "e", "a", "d", "_", "f", "i", "l", "e">>, <<"p", "a", "r", "s", "e", "_", "m", "o", "d", "u", "l", "e">>, <<"g", "e", "t", "_", "f", "u", "n", "c", "t", "i", "o", "n", "_", "d", "e", "t", "a", "i", "l", "s">>, <<"g", "e", "t", "_", "c", "l", "a", "s", "s", "_", "d", "e", "t", "a", "i", "l", "s">>,
     <<"f", "i", "n", "d", "_", "i", "m", "p", "o", "r", "t", "s">>, <<"g", "e", "t", "_", "t", "y", "p", "e", "_", "h", "i", "n", "t", "s">>, <<"s", "u", "g", "g", "e", "s", "t", "_", "t", "e", "s", "t", "_", "c", "a", "s", "e", "s">>}

ServerPaths ==
    {<<"m", ".", "p", "y">>, <<"d", "o", "c", "s", "/", "n", "o", "t", "e", "s", ".", "t", "x", "t">>, <<".", ".", "/", "s", "e", "c", "r", "e", "t", ".", "p", "y">>, <<"/", "e", "t", "c", "/", "a", "p", "p", ".", "p", "y">>,
     <<" ", "/", "e", "t", "c", "/", "a", "p", "p", ".", "p", "y">>, <<>>}

\* the other arguments of a call: all valid, or one of them invalid
ServerArguments ==
    <<[max_size |-> <<>>, function_name |-> <<"f">>, framework |-> None],
      [max_size |-> <<-1>>, function_name |-> <<"f">>, framework |-> <<"P", "y", "T", "e", "s", "t">>],
      [max_size |-> <<>>, function_name |-> <<"f", "(", ")">>, framework |-> None],
      [max_size |-> <<>>, function_name |-> <<"f">>, framework |-> <<"n", "o", "s", "e">>]>>

\* a client calls a tool
HandleCallTool ==
    \E name \in FilePathTools \cup {<<"a", "n", "a", "l", "y", "z", "e", "_", "t", "e", "s", "t", "_", "f", "i", "l", "e", "s">>, <<"n", "o", "_", "t", "o", "o", "l">>},
       file_path \in ServerPaths, other \in DOMAIN ServerArguments :
        LET arguments == [file_path |-> file_path,
                          max_size |-> ServerArguments[other].max_size,
                          function_name |-> ServerArguments[other].function_name,
                          class_name |-> <<"K">>,
                          framework |-> ServerArguments[other].framework,
                          directory |-> None]
        IN  /\ call' = [op |-> "handle_call_tool", name |-> name, arguments |-> arguments]
            /\ result' = handle_call_tool(fs, name, arguments)
            /\ UNCHANGED fs

SpecServer == Init /\ [][WriteServerFile \/ HandleCallTool]_vars

(***************************************************************************)
(* C29                                                                     *)
(***************************************************************************)

\* the text is the message of the except arm
IsErrorText(content) ==
    /\ "message" \in DOMAIN content.text
    /\ StartsWith(content.text.message, <<"E", "r", "r", "o", "r", " ", "e", "x", "e", "c", "u", "t", "i", "n", "g", " ">>)

\* the text is the JSON document of a tool's error: the tool found no file
\* to open
IsNotFoundDocument(content) ==
    /\ "json" \in DOMAIN content.text
    /\ IsError(content.text.json)
    /\ \/ StartsWith(content.text.json.error, <<"F", "i", "l", "e", " ", "n", "o", "t", " ", "f", "o", "u", "n", "d", ":", " ">>)
       \/ StartsWith(content.text.json.error, <<"I", "n", "v", "a", "l", "i", "d", " ", "p", "a", "t", "h", ":", " ">>)

\* C29: for a tool that takes a file_path and a path that contains '..' or
\* starts with '/', handle_call_tool returns an error text and opens no
\* file: the text is the message of a rejection, never a document made from
\* a file outside the project root.
C29_UnsafePathsRejected ==
    (/\ call.op = "handle_call_tool"
     /\ call.name \in FilePathTools
     /\ \/ IsSubstr(<<".", ".">>, call.arguments.file_path)
        \/ StartsWith(call.arguments.file_path, <<"/">>)) =>
        IsErrorText(result) \/ IsNotFoundDocument(result)

(***************************************************************************)
(* C30: the same project tree under different project roots                *)
(***************************************************************************)

\* where the project root can be
ProjectRoots ==
    {project_root, <<"/", "o", "p", "t", "/", "a", "p", "p">>, <<"/", "h", "o", "m", "e", "/", "d", "e", "v", "/", ".", "w", "o", "r", "k", "/", "p", "r", "o", "j", "e", "c", "t">>, <<"/", "s", "r", "v", "/", "b", "u", "i", "l", "d", "/", "p", "r", "o", "j", "e", "c", "t">>}

\* find_test_files(directory) of a server whose config.project_root is root;
\* the list it returns is kept as [files |-> the list]
FindTestFiles ==
    \E root \in ProjectRoots, directory \in {<<>>, <<"t", "e", "s", "t", "s">>, <<"p", "k", "g">>} :
        /\ call' = [op |-> "find_test_files", project_root |-> root,
                    directory |-> directory]
        /\ result' = [files |-> find_test_files_under(root, fs, directory)]
        /\ UNCHANGED fs

SpecRoot == Init /\ [][WriteProjectFile \/ FindTestFiles]_vars

\* C30: what find_test_files returns for a project tree does not depend on
\* where the project root is: it is what it returns with the root at
\* /srv/project, also when a directory above the root has a name that
\* starts with '.' or is in the ignore-directory list.
C30_RootIndependent ==
    (call.op = "find_test_files") =>
        result.files = find_test_files_under(project_root, fs, call.directory)

====
